---- MODULE Spec2Model ----
(***************************************************************************)
(* Model of the ESAGE graph-construction workflow engine:                  *)
(*   core/workflow_state.py   WorkflowState (graph store and task queue)   *)
(*   agents/structure_planner_agent.py  StructurePlannerAgent.execute_task *)
(*   agents/node_extractor_agent.py  NodeExtractorAgent.execute_task       *)
(*   pipelines/report_generation_pipeline.py  the initial plan task        *)
(*   core/orchestrator.py     Orchestrator.coordinate_workflow             *)
(*   core/graph_refiner.py    GraphRefiner.refine_graph                    *)
(*   core/posterior_verifier.py  PosteriorVerifier.verify_claim            *)
(* Python dicts are functions with a varying DOMAIN, Python lists are      *)
(* sequences, and every store operation is an operator on a graph record   *)
(* [structure, node_details] that returns the new graph and the value the  *)
(* method returns.                                                         *)
(***************************************************************************)
EXTENDS Integers, Sequences, FiniteSets, TLC

VARIABLES
    structure,      \* industry_graph['structure']: category -> list of names
    node_details,   \* industry_graph['node_details']: name -> bundle
    flags,          \* global_flags
    pending_tasks,  \* WorkflowState.pending_tasks
    completed_tasks,\* WorkflowState.completed_tasks
    error_count,    \* WorkflowState.error_count
    current_processing_task_id,
    next_id,        \* the next uuid4 (ids are unique; the counter is arrival order)
    clock,          \* datetime.now(), read by add_task
    call,           \* the last operation called, its arguments and its return value
    verdicts,       \* the <<field, item>> claims verify_claim verified in the last extract task
    orch,           \* Orchestrator.coordinate_workflow: its position and locals
    popped,         \* the ids get_next_task has returned, in order
    verification,   \* the last verify_claim call: its arguments, the oracle's replies, its result
    matching,       \* _match_evidence on one field: the futures and the lists built so far
    steps           \* number of operations performed (bounds the exploration)

vars == <<structure, node_details, flags, pending_tasks, completed_tasks,
          error_count, current_processing_task_id, next_id, clock, call,
          verdicts, orch, popped, verification, matching, steps>>

----------------------------------------------------------------------------
(* Bounds of the exploration *)

MaxSteps == 3
MaxPlanNodes == 2
MaxQueueOps == 5
MaxSetupOps == 2
MaxIterations == 6

(* Entity names; list items are entity names too, since _expand_nodes turns *)
(* items into nodes.                                                        *)
Names == {"A", "B"}

CategoryOrder == <<"upstream", "midstream", "downstream">>
Categories == {"upstream", "midstream", "downstream"}
(* a category string outside the fixed three (execute_task's default)      *)
BadCategory == "unknown"

ListFields == <<"input_elements", "output_products", "key_technologies",
                "representative_companies">>

----------------------------------------------------------------------------
(* Python helpers *)

InList(x, s) == \E i \in 1..Len(s) : s[i] = x

ListSet(s) == {s[i] : i \in 1..Len(s)}

(* list.remove(x): removes the first occurrence only *)
ListRemove(s, x) ==
    IF ~InList(x, s) THEN s
    ELSE LET k == CHOOSE i \in 1..Len(s) :
                     s[i] = x /\ \A j \in 1..(i-1) : s[j] # x
         IN  SubSeq(s, 1, k-1) \o SubSeq(s, k+1, Len(s))

DictSet(d, k, v) == [x \in (DOMAIN d) \cup {k} |-> IF x = k THEN v ELSE d[x]]

DictDel(d, k) == [x \in (DOMAIN d) \ {k} |-> d[x]]

----------------------------------------------------------------------------
(* Bundles: the values of node_details.                                    *)
(*   kind "none"  : None                                                   *)
(*   kind "empty" : {} (a mapping, falsy)                                  *)
(*   kind "other" : a truthy value that is not a mapping                   *)
(*   kind "dict"  : a non-empty mapping                                    *)

BlankBundle(k) ==
    [kind |-> k, entity_name |-> "", description |-> "",
     input_elements |-> <<>>, output_products |-> <<>>,
     key_technologies |-> <<>>, representative_companies |-> <<>>,
     evidence_refs |-> {}, evidence_details |-> {}, filtered_items |-> {},
     error |-> "", raw_llm_output |-> ""]

NoneBundle == BlankBundle("none")
EmptyDict == BlankBundle("empty")
NotADict == BlankBundle("other")

(* Python truthiness of a node_details value: `not details` *)
Truthy(b) == b.kind \in {"dict", "other"}

IsDict(b) == b.kind \in {"dict", "empty"}

(* node_details.get(name): None when the key is missing *)
DetailsGet(nd, name) == IF name \in DOMAIN nd THEN nd[name] ELSE NoneBundle

Graph == [structure |-> structure, node_details |-> node_details]

----------------------------------------------------------------------------
(* WorkflowState: the graph store.  Every operator takes the graph g and   *)
(* returns [g |-> the graph after the call, ret |-> the returned value].   *)

(* Every name a planning result lists, over the three categories *)
PlannedNames(structure_data) ==
    UNION {ListSet(structure_data[c]) : c \in Categories}

(* initialize_industry_graph: structure becomes the planning result as it  *)
(* is; every listed node gets a None entry in node_details.                *)
initialize_industry_graph(g, structure_data) ==
    [g |-> [structure |-> structure_data,
            node_details |->
              [n \in (DOMAIN g.node_details) \cup PlannedNames(structure_data) |->
                 IF n \in PlannedNames(structure_data) THEN NoneBundle
                 ELSE g.node_details[n]]],
     ret |-> TRUE]

(* lines 149-154: an invalid category gets an empty list before the        *)
(* membership check runs                                                   *)
WithCategoryKey(s, category) ==
    IF category \notin Categories /\ category \notin DOMAIN s
    THEN DictSet(s, category, <<>>)
    ELSE s

InAnyCategory(s, node_name) == \E cat \in DOMAIN s : InList(node_name, s[cat])

(* a membership check on the target category alone *)
add_node_to_structure_target_only(g, node_name, category) ==
    LET s1 == WithCategoryKey(g.structure, category) IN
    IF InList(node_name, s1[category])
    THEN [g |-> [g EXCEPT !.structure = s1], ret |-> FALSE]
    ELSE [g |-> [structure |-> [s1 EXCEPT ![category] = Append(@, node_name)],
                 node_details |->
                   IF node_name \in DOMAIN g.node_details THEN g.node_details
                   ELSE DictSet(g.node_details, node_name, NoneBundle)],
          ret |-> TRUE]

add_node_to_structure(g, node_name, category) ==
    LET s1 == WithCategoryKey(g.structure, category) IN
    IF InAnyCategory(s1, node_name)
    THEN [g |-> [g EXCEPT !.structure = s1], ret |-> FALSE]
    ELSE [g |-> [structure |-> [s1 EXCEPT ![category] = Append(@, node_name)],
                 node_details |->
                   IF node_name \in DOMAIN g.node_details THEN g.node_details
                   ELSE DictSet(g.node_details, node_name, NoneBundle)],
          ret |-> TRUE]

update_node_details(g, node_name, extracted_data) ==
    [g |-> [g EXCEPT !.node_details = DictSet(@, node_name, extracted_data)],
     ret |-> TRUE]

(* lines 207-212: all four list fields empty *)
is_empty_components(details) ==
    /\ details.input_elements = <<>>
    /\ details.output_products = <<>>
    /\ details.key_technologies = <<>>
    /\ details.representative_companies = <<>>

(* a prune that keeps a bundle for its description *)
nodes_to_remove_keeps_description(nd) ==
    {n \in DOMAIN nd :
        \/ ~Truthy(nd[n])
        \/ ~IsDict(nd[n])
        \/ is_empty_components(nd[n]) /\ nd[n].description = ""}

(* lines 194-216 *)
nodes_to_remove(nd) ==
    {n \in DOMAIN nd :
        \/ ~Truthy(nd[n])
        \/ ~IsDict(nd[n])
        \/ is_empty_components(nd[n])}

(* lines 220-228: for each node, list.remove(node) once per category *)
RECURSIVE ListRemoveEach(_, _)
ListRemoveEach(s, R) ==
    IF R = {} THEN s
    ELSE LET x == CHOOSE x \in R : TRUE
         IN  ListRemoveEach(ListRemove(s, x), R \ {x})

prune_industry_graph(g) ==
    LET R == nodes_to_remove(g.node_details) IN
    [g |-> [structure |->
              [c \in DOMAIN g.structure |->
                 IF c \in Categories THEN ListRemoveEach(g.structure[c], R)
                 ELSE g.structure[c]],
            node_details |-> [n \in (DOMAIN g.node_details) \ R |-> g.node_details[n]]],
     ret |-> TRUE]

remove_node(g, node_name) ==
    [g |-> [structure |->
              [c \in DOMAIN g.structure |->
                 IF c \in Categories THEN ListRemove(g.structure[c], node_name)
                 ELSE g.structure[c]],
            node_details |-> DictDel(g.node_details, node_name)],
     ret |-> \/ \E c \in Categories : InList(node_name, g.structure[c])
             \/ node_name \in DOMAIN g.node_details]

(* lines 297-301: the first category, in order, that lists drop_name *)
found_cat(s, drop_name) ==
    IF \E i \in 1..3 : InList(drop_name, s[CategoryOrder[i]])
    THEN CategoryOrder[CHOOSE i \in 1..3 :
             /\ InList(drop_name, s[CategoryOrder[i]])
             /\ \A j \in 1..(i-1) : ~InList(drop_name, s[CategoryOrder[j]])]
    ELSE "upstream"

(* lines 321-326: append the items of drop's list that keep's list lacks *)
MergeList(keep_list, drop_list) ==
    keep_list \o SelectSeq(drop_list, LAMBDA item : item \notin ListSet(keep_list))

(* lines 319-330 *)
MergeDetails(keep_data, drop_data) ==
    [keep_data EXCEPT
       !.input_elements = MergeList(@, drop_data.input_elements),
       !.output_products = MergeList(@, drop_data.output_products),
       !.key_technologies = MergeList(@, drop_data.key_technologies),
       !.representative_companies = MergeList(@, drop_data.representative_companies),
       !.evidence_refs = @ \cup drop_data.evidence_refs]

(* lines 294-336, what merge_nodes does once drop_name is known *)
MergeKnown(g, keep_name, drop_name) ==
      LET g1 == IF keep_name \notin DOMAIN g.node_details
                THEN add_node_to_structure(g, keep_name,
                                           found_cat(g.structure, drop_name)).g
                ELSE g
          keep_data == DetailsGet(g1.node_details, keep_name)
          drop_data == DetailsGet(g1.node_details, drop_name)
          nd2 == IF ~Truthy(keep_data) /\ Truthy(drop_data)
                 THEN DictSet(g1.node_details, keep_name,
                              IF IsDict(drop_data)
                              THEN [drop_data EXCEPT !.entity_name = keep_name]
                              ELSE drop_data)
                 ELSE IF Truthy(keep_data) /\ Truthy(drop_data)
                         /\ IsDict(keep_data) /\ IsDict(drop_data)
                 THEN DictSet(g1.node_details, keep_name,
                              MergeDetails(keep_data, drop_data))
                 ELSE g1.node_details
      IN [g |-> remove_node([g1 EXCEPT !.node_details = nd2], drop_name).g,
          ret |-> TRUE]

(* a merge without the guard of lines 290-291 *)
merge_nodes_unguarded(g, keep_name, drop_name) ==
    MergeKnown(g, keep_name, drop_name)

merge_nodes(g, keep_name, drop_name) ==
    IF drop_name \notin DOMAIN g.node_details
    THEN [g |-> g, ret |-> FALSE]
    ELSE MergeKnown(g, keep_name, drop_name)

----------------------------------------------------------------------------
(* WorkflowState: the task queue *)

TASK_TYPE_PLAN_STRUCTURE == "plan_structure"
TASK_TYPE_EXTRACT_NODE == "extract_node"

NoPayload == [node_name |-> "", category |-> "", depth |-> 0, max_depth |-> 0,
              user_topic |-> ""]

NoTask == [id |-> 0, type |-> "", priority |-> 0, payload |-> NoPayload,
           added_at |-> 0]

(* the sort key of line 93: (priority, added_at) *)
KeyLE(a, b) ==
    \/ a.priority < b.priority
    \/ a.priority = b.priority /\ a.added_at <= b.added_at

(* a sort that puts an element before the elements of equal key *)
InsertSorted_unstable(sorted, t) ==
    LET n == Cardinality({i \in 1..Len(sorted) :
                            KeyLE(sorted[i], t) /\ ~KeyLE(t, sorted[i])})
    IN  SubSeq(sorted, 1, n) \o <<t>> \o SubSeq(sorted, n+1, Len(sorted))

(* list.sort is stable: an element goes behind every element whose key is  *)
(* not greater than its own                                                *)
InsertSorted(sorted, t) ==
    LET n == Cardinality({i \in 1..Len(sorted) : KeyLE(sorted[i], t)})
    IN  SubSeq(sorted, 1, n) \o <<t>> \o SubSeq(sorted, n+1, Len(sorted))

RECURSIVE SortTasks(_)
SortTasks(q) ==
    IF q = <<>> THEN <<>>
    ELSE InsertSorted(SortTasks(SubSeq(q, 1, Len(q)-1)), q[Len(q)])

(* add_task: append, then sort *)
add_task(q, id, task_type, payload, priority, now) ==
    SortTasks(Append(q, [id |-> id, type |-> task_type, priority |-> priority,
                         payload |-> payload, added_at |-> now]))

----------------------------------------------------------------------------
(* The state after WorkflowState.__init__ *)

NoPlan == [c \in Categories |-> <<>>]

(* call.removed_nodes is what prune_industry_graph logs (line 233);        *)
(* call.sources are the source nodes of the merge a refinement applied;    *)
(* call.llm is what the answer of the generation collaborator parsed to    *)
(* in execute_task; call.answer tells of the answer of the synonym         *)
(* collaborator in refine_graph what it parsed to, whether its merge list  *)
(* held an entry that is no suggestion, and the names it listed as         *)
(* invalid; call.last_merge is the suggestion _apply_merges applied last,  *)
(* with structure_updates as it was before it                              *)
NoAnswer == [kind |-> "", malformed_entry |-> FALSE, invalid_nodes |-> {}]

NoMerge == [target |-> "", sources |-> <<>>, before |-> NoPlan]

NoCall == [op |-> "init", name |-> "", other |-> "", plan |-> NoPlan,
           ret |-> FALSE, task |-> NoTask, removed_nodes |-> {},
           sources |-> {}, llm |-> NoneBundle, answer |-> NoAnswer,
           last_merge |-> NoMerge]

(* before coordinate_workflow is called; the fields are its locals, the   *)
(* cap it was constructed with, and the ids it dispatched                  *)
NoOrch == [pc |-> "idle", ended |-> "", max_workflow_iterations |-> 0,
           iteration_count |-> 0, stall_patience_counter |-> 0, polls |-> 0,
           dispatched |-> <<>>, start |-> [empty |-> FALSE, resolved |-> FALSE,
                   structure |-> [c \in Categories |-> <<>>],
                   node_details |-> <<>>]]

(* _match_evidence has not reached a field *)
NoMatching == [pc |-> "idle"]

(* verify_claim has not been called *)
NoVerification == [called |-> FALSE]

Init ==
    /\ structure = [c \in Categories |-> <<>>]
    /\ node_details = <<>>
    /\ flags = [structure_planned |-> FALSE, extraction_complete |-> FALSE]
    /\ pending_tasks = <<>>
    /\ completed_tasks = <<>>
    /\ error_count = 0
    /\ current_processing_task_id = 0
    /\ next_id = 1
    /\ clock = 0
    /\ call = NoCall
    /\ verdicts = {}
    /\ orch = NoOrch
    /\ popped = <<>>
    /\ verification = NoVerification
    /\ matching = NoMatching
    /\ steps = 0

queue_vars == <<pending_tasks, completed_tasks, error_count,
                current_processing_task_id, next_id, clock>>

----------------------------------------------------------------------------
(* Inputs of the store operations *)

SeqsUpTo(n) == UNION {[1..k -> Names] : k \in 0..n}

(* planning results: at most MaxPlanNodes names over the three lists; the  *)
(* planner may repeat a name inside a list or across lists                 *)
PlanInputs ==
    {p \in [Categories -> SeqsUpTo(MaxPlanNodes)] :
        Len(p["upstream"]) + Len(p["midstream"]) + Len(p["downstream"])
            <= MaxPlanNodes}

Dict(name, desc, ie, op, kt, rc) ==
    [BlankBundle("dict") EXCEPT
       !.entity_name = name, !.description = desc,
       !.input_elements = ie, !.output_products = op,
       !.key_technologies = kt, !.representative_companies = rc]

(* the bundles update_node_details is given; the last one carries the     *)
(* evidence_details entries _match_evidence wrote for its verified items   *)
BundleInputs(n) ==
    {NoneBundle, EmptyDict, NotADict,
     Dict(n, "d", <<>>, <<>>, <<>>, <<>>),
     Dict(n, "", <<"A">>, <<>>, <<"B">>, <<>>),
     [Dict(n, "d", <<"B", "A">>, <<"A">>, <<>>, <<"B">>) EXCEPT
        !.evidence_details = {<<"input_elements", "B">>,
                              <<"input_elements", "A">>,
                              <<"output_products", "A">>,
                              <<"representative_companies", "B">>}]}

----------------------------------------------------------------------------
(* The store operations as actions *)

StoreStep(r, c) ==
    /\ steps' = steps + 1
    /\ structure' = r.g.structure
    /\ node_details' = r.g.node_details
    /\ call' = [c EXCEPT !.ret = r.ret]
    /\ UNCHANGED <<queue_vars, verdicts, verification, matching, orch, popped>>

(* the pipeline enqueues one plan_structure task, so the planner           *)
(* initializes the graph once                                              *)
InitializeIndustryGraph ==
    /\ steps < MaxSteps
    /\ ~flags.structure_planned
    /\ \E p \in PlanInputs :
         StoreStep(initialize_industry_graph(Graph, p),
                   [NoCall EXCEPT !.op = "initialize_industry_graph", !.plan = p])
    /\ flags' = [flags EXCEPT !.structure_planned = TRUE]

AddNodeToStructure ==
    /\ steps < MaxSteps
    /\ \E n \in Names, c \in Categories \cup {BadCategory} :
         StoreStep(add_node_to_structure(Graph, n, c),
                   [NoCall EXCEPT !.op = "add_node_to_structure",
                                  !.name = n, !.other = c])
    /\ UNCHANGED flags

UpdateNodeDetails ==
    /\ steps < MaxSteps
    /\ \E n \in Names : \E b \in BundleInputs(n) :
         StoreStep(update_node_details(Graph, n, b),
                   [NoCall EXCEPT !.op = "update_node_details", !.name = n])
    /\ UNCHANGED flags

PruneIndustryGraph ==
    /\ steps < MaxSteps
    /\ StoreStep(prune_industry_graph(Graph),
                 [NoCall EXCEPT !.op = "prune_industry_graph",
                                !.removed_nodes = nodes_to_remove(node_details)])
    /\ UNCHANGED flags

RemoveNode ==
    /\ steps < MaxSteps
    /\ \E n \in Names :
         StoreStep(remove_node(Graph, n),
                   [NoCall EXCEPT !.op = "remove_node", !.name = n])
    /\ UNCHANGED flags

MergeNodes ==
    /\ steps < MaxSteps
    /\ \E k \in Names, d \in Names :
         StoreStep(merge_nodes(Graph, k, d),
                   [NoCall EXCEPT !.op = "merge_nodes", !.name = k, !.other = d])
    /\ UNCHANGED flags

Next ==
    \/ InitializeIndustryGraph
    \/ AddNodeToStructure
    \/ UpdateNodeDetails
    \/ PruneIndustryGraph
    \/ RemoveNode
    \/ MergeNodes

Spec == Init /\ [][Next]_vars

----------------------------------------------------------------------------
(* Properties of the graph store, checked under Spec *)

Disjoint(s) ==
    \A c1 \in DOMAIN s, c2 \in DOMAIN s :
        c1 # c2 => ListSet(s[c1]) \cap ListSet(s[c2]) = {}

InSomeSequence(s, n) == \E c \in Categories : InList(n, s[c])

HasListContent(b) == \E i \in 1..4 : b[ListFields[i]] # <<>>

MutationOps == {"add_node_to_structure", "update_node_details", "remove_node",
                "merge_nodes", "prune_industry_graph"}

(* C2: from a graph in which no name is in two category sequences, each of *)
(* add_node_to_structure, update_node_details, remove_node, merge_nodes    *)
(* and prune_industry_graph leaves a graph in which no name is in two      *)
(* category sequences.                                                     *)
C2_DisjointPreserved ==
    [][(Disjoint(structure) /\ call'.op \in MutationOps)
          => Disjoint(structure')]_vars

(* an add of a name that sits in another category was refused *)
C2_Witness ==
    /\ call.op = "add_node_to_structure"
    /\ ~call.ret
    /\ call.other \in Categories
    /\ \E c \in Categories : c # call.other /\ InList(call.name, structure[c])
    /\ Disjoint(structure)

(* C3: initialize_industry_graph deduplicates the planning result with the *)
(* priority midstream > downstream > upstream: midstream keeps all its     *)
(* names, downstream those not proposed for midstream, upstream those      *)
(* proposed for neither, so no name is in two categories afterwards.       *)
C3_InitializeDeduplicates ==
    call.op = "initialize_industry_graph" =>
        LET mid == ListSet(call.plan["midstream"])
            down == ListSet(call.plan["downstream"])
            up == ListSet(call.plan["upstream"])
        IN  /\ ListSet(structure["midstream"]) = mid
            /\ ListSet(structure["downstream"]) = down \ mid
            /\ ListSet(structure["upstream"]) = up \ (mid \cup down)
            /\ Disjoint(structure)

(* C4: every name in a category sequence is a key of node_details *)
C4_StructureNamesHaveDetails ==
    \A c \in Categories : ListSet(structure[c]) \subseteq DOMAIN node_details

(* C5: add_node_to_structure of a name that is already in some category    *)
(* returns false and changes neither structure, node_details nor the       *)
(* pending queue, whatever the category argument.                          *)
C5_AddExistingChangesNothing ==
    [][(call'.op = "add_node_to_structure"
          /\ InAnyCategory(structure, call'.name))
          => /\ ~call'.ret
             /\ structure' = structure
             /\ node_details' = node_details
             /\ pending_tasks' = pending_tasks]_vars

(* C6: merge_nodes with a drop that is no key of node_details returns      *)
(* false and changes neither structure nor node_details, also for an       *)
(* unknown keep.                                                           *)
C6_MergeUnknownDropNoChange ==
    [][(call'.op = "merge_nodes" /\ call'.other \notin DOMAIN node_details)
          => /\ ~call'.ret
             /\ structure' = structure
             /\ node_details' = node_details]_vars

(* a refused merge of two unknown names into a graph that holds a node *)
C6_Witness ==
    /\ call.op = "merge_nodes"
    /\ ~call.ret
    /\ call.name # call.other
    /\ call.name \notin DOMAIN node_details
    /\ call.other \notin DOMAIN node_details
    /\ \E c \in Categories : structure[c] # <<>>

(* C7: after merge_nodes(keep, drop) returned true with keep # drop, drop  *)
(* is in no category sequence and no key of node_details, keep is still in *)
(* the category it occupied and not in drop's former one, and when both    *)
(* had bundles each list field of keep is the union of the two lists.      *)
C7_MergePostcondition ==
    [][(call'.op = "merge_nodes" /\ call'.ret /\ call'.name # call'.other)
          => LET keep == call'.name
                 drop == call'.other
             IN  /\ ~InSomeSequence(structure', drop)
                 /\ drop \notin DOMAIN node_details'
                 /\ \A c \in Categories :
                       InList(keep, structure[c]) => InList(keep, structure'[c])
                 /\ \A c \in Categories :
                       (InSomeSequence(structure, keep) /\ ~InList(keep, structure[c]))
                          => ~InList(keep, structure'[c])
                 /\ (/\ keep \in DOMAIN node_details
                     /\ node_details[keep].kind = "dict"
                     /\ node_details[drop].kind = "dict")
                       => \A i \in 1..4 :
                            ListSet(node_details'[keep][ListFields[i]])
                              = ListSet(node_details[keep][ListFields[i]])
                                  \cup ListSet(node_details[drop][ListFields[i]])]_vars

(* C8: after remove_node(name), name is in no category sequence and no key *)
(* of node_details, and it returned true exactly when name was in a        *)
(* sequence or in node_details before.                                     *)
C8_RemovePostcondition ==
    [][call'.op = "remove_node"
          => /\ ~InSomeSequence(structure', call'.name)
             /\ call'.name \notin DOMAIN node_details'
             /\ call'.ret <=> (\/ InSomeSequence(structure, call'.name)
                               \/ call'.name \in DOMAIN node_details)]_vars

(* C24: after merge_nodes(keep, drop) returned true where both nodes had   *)
(* bundles, keep's evidence_details holds every field/item entry that      *)
(* drop's evidence_details held before, besides keep's own entries.        *)
C24_MergeUnitesEvidenceDetails ==
    [][(/\ call'.op = "merge_nodes"
        /\ call'.ret
        /\ call'.name # call'.other
        /\ call'.name \in DOMAIN node_details
        /\ node_details[call'.name].kind = "dict"
        /\ node_details[call'.other].kind = "dict")
       => /\ call'.name \in DOMAIN node_details'
          /\ node_details[call'.other].evidence_details
                \subseteq node_details'[call'.name].evidence_details
          /\ node_details[call'.name].evidence_details
                \subseteq node_details'[call'.name].evidence_details]_vars

(* C23: after prune_industry_graph no category sequence holds a name the  *)
(* prune removed from node_details: every name left in a category sequence *)
(* has a node_details bundle with at least one non-empty list field.       *)
C23_PrunedNamesLeaveStructure ==
    [][call'.op = "prune_industry_graph"
          => \A c \in Categories :
                \A n \in ListSet(structure'[c]) :
                   /\ n \notin call'.removed_nodes
                   /\ n \in DOMAIN node_details'
                   /\ HasListContent(node_details'[n])]_vars

(* C9: after prune_industry_graph a name is a key of node_details exactly  *)
(* when its bundle was a mapping with a non-empty list field; a bundle     *)
(* with only a description, a None and an empty bundle are removed.        *)
C9_PruneKeepsExactlyListContent ==
    [][call'.op = "prune_industry_graph"
          => \A n \in Names :
                n \in DOMAIN node_details'
                   <=> /\ n \in DOMAIN node_details
                       /\ node_details[n].kind = "dict"
                       /\ HasListContent(node_details[n])]_vars

(* a prune that removed a node and kept another *)
C9_Witness ==
    /\ call.op = "prune_industry_graph"
    /\ call.removed_nodes # {}
    /\ \E n \in DOMAIN node_details : HasListContent(node_details[n])

----------------------------------------------------------------------------
(* The task queue: add_task, get_next_task and complete_task called in any *)
(* order.  datetime.now() does not go back between two calls, and two      *)
(* calls may read the same instant.                                        *)

graph_vars == <<structure, node_details, flags>>

(* (type, priority) pairs: the pipeline's plan task (default priority 0),  *)
(* the agents' extract tasks (priority 1), an extract task of priority 0,  *)
(* and a task of a type no agent is registered for                         *)
TaskInputs ==
    {[type |-> TASK_TYPE_PLAN_STRUCTURE, priority |-> 0],
     [type |-> TASK_TYPE_EXTRACT_NODE, priority |-> 1],
     [type |-> TASK_TYPE_EXTRACT_NODE, priority |-> 0],
     [type |-> "other_type", priority |-> 1]}

AddTask ==
    /\ steps < MaxQueueOps
    /\ \E i \in TaskInputs, now \in {clock, clock + 1} :
         /\ pending_tasks' = add_task(pending_tasks, next_id, i.type, NoPayload,
                                      i.priority, now)
         /\ clock' = now
         /\ call' = [NoCall EXCEPT !.op = "add_task", !.ret = TRUE,
                                   !.task = [NoTask EXCEPT !.id = next_id]]
    /\ next_id' = next_id + 1
    /\ steps' = steps + 1
    /\ UNCHANGED <<graph_vars, completed_tasks, error_count,
                   current_processing_task_id, verdicts, verification, matching, orch, popped>>

(* a read of the head that leaves it in the queue *)
pop_head_keeps(q) == [task |-> Head(q), rest |-> q]

(* line 100: pending_tasks.pop(0) *)
pop_head(q) == [task |-> Head(q), rest |-> Tail(q)]

(* get_next_task: None on an empty queue, else pop(0) *)
GetNextTask ==
    /\ steps < MaxQueueOps
    /\ steps' = steps + 1
    /\ IF pending_tasks = <<>>
       THEN /\ call' = [NoCall EXCEPT !.op = "get_next_task"]
            /\ UNCHANGED <<pending_tasks, current_processing_task_id, popped>>
       ELSE /\ pending_tasks' = pop_head(pending_tasks).rest
            /\ current_processing_task_id' = pop_head(pending_tasks).task.id
            /\ popped' = Append(popped, pop_head(pending_tasks).task.id)
            /\ call' = [NoCall EXCEPT !.op = "get_next_task", !.ret = TRUE,
                                      !.task = pop_head(pending_tasks).task]
    /\ UNCHANGED <<graph_vars, completed_tasks, error_count, next_id, clock,
                   verdicts, verification, matching, orch>>

(* complete_task(task_id, message, status) on the record c of the three   *)
(* fields it touches                                                       *)
complete_task_on(c, task_id, status) ==
    [current_processing_task_id |->
        IF c.current_processing_task_id = task_id THEN 0
        ELSE c.current_processing_task_id,
     completed_tasks |-> Append(c.completed_tasks,
                                [id |-> task_id, status |-> status]),
     error_count |-> IF status = "failed" THEN c.error_count + 1
                     ELSE c.error_count]

Completion ==
    [current_processing_task_id |-> current_processing_task_id,
     completed_tasks |-> completed_tasks, error_count |-> error_count]

complete_task(task_id, status) ==
    /\ current_processing_task_id' =
          complete_task_on(Completion, task_id, status).current_processing_task_id
    /\ completed_tasks' =
          complete_task_on(Completion, task_id, status).completed_tasks
    /\ error_count' = complete_task_on(Completion, task_id, status).error_count

CompleteTask ==
    /\ steps < MaxQueueOps
    /\ steps' = steps + 1
    /\ current_processing_task_id # 0
    /\ \E status \in {"success", "failed"} :
         /\ complete_task(current_processing_task_id, status)
         /\ call' = [NoCall EXCEPT !.op = "complete_task", !.other = status,
                        !.task = [NoTask EXCEPT !.id = current_processing_task_id]]
    /\ UNCHANGED <<graph_vars, pending_tasks, next_id, clock, verdicts, verification, matching, orch,
                   popped>>

NextQueue ==
    \/ AddTask
    \/ GetNextTask
    \/ CompleteTask

SpecQueue == Init /\ [][NextQueue]_vars

(* t is dispatched before u: smaller priority value, or the same priority  *)
(* and added earlier (ids are handed out in the order of the add_task      *)
(* calls)                                                                  *)
DispatchedBefore(t, u) ==
    \/ t.priority < u.priority
    \/ t.priority = u.priority /\ t.id < u.id

(* C10: the task get_next_task returns has the smallest priority value of  *)
(* the pending tasks, and among those of its priority it is the one added  *)
(* first.                                                                  *)
C10_NextTaskIsFirstOfLowestPriority ==
    (call.op = "get_next_task" /\ call.ret)
        => \A i \in 1..Len(pending_tasks) :
              DispatchedBefore(call.task, pending_tasks[i])

(* the returned task overtook an earlier task of larger priority value and *)
(* left behind a later task of its own priority added at the same instant  *)
C10_Witness ==
    /\ call.op = "get_next_task"
    /\ call.ret
    /\ \E i \in 1..Len(pending_tasks) :
          /\ pending_tasks[i].priority > call.task.priority
          /\ pending_tasks[i].id < call.task.id
    /\ \E i \in 1..Len(pending_tasks) :
          /\ pending_tasks[i].priority = call.task.priority
          /\ pending_tasks[i].added_at = call.task.added_at
          /\ pending_tasks[i].id > call.task.id

----------------------------------------------------------------------------
(* The agents' handlers, each run on the task get_next_task has just       *)
(* returned.  The collaborators (retrieval, LLM, verifier) are inputs.     *)

ListFieldSet == ListSet(ListFields)

(* max_depth when the plan task's payload has no max_recursion_depth *)
DefaultMaxDepth == 2

(* ReportGenerationPipeline.run: one plan_structure task on a fresh state; *)
(* kwargs may carry max_recursion_depth                                    *)
RunPipeline ==
    /\ steps < MaxQueueOps
    /\ steps' = steps + 1
    /\ next_id = 1
    /\ \E user_topic \in {"t", ""}, max_recursion_depth \in {0, DefaultMaxDepth} :
         pending_tasks' =
              add_task(pending_tasks, next_id, TASK_TYPE_PLAN_STRUCTURE,
                       [NoPayload EXCEPT !.user_topic = user_topic,
                                         !.max_depth = max_recursion_depth],
                       0, clock)
    /\ next_id' = next_id + 1
    /\ call' = [NoCall EXCEPT !.op = "run", !.ret = TRUE]
    /\ UNCHANGED <<graph_vars, completed_tasks, error_count,
                   current_processing_task_id, clock, verdicts, verification, matching, orch, popped>>

(* the handler's failure paths: complete_task(failed), then raise *)
HandlerFails(op, name) ==
    /\ complete_task(current_processing_task_id, "failed")
    /\ call' = [NoCall EXCEPT !.op = op, !.name = name, !.other = "failed",
                              !.task = call.task]
    /\ UNCHANGED <<graph_vars, pending_tasks, next_id, clock, verdicts, verification, matching, orch,
                   popped>>

(* lines 111-124: one extract task per listed node, category by category;  *)
(* st is [q, next_id, clock], each add_task reads the clock tick later     *)
RECURSIVE plan_tasks(_, _, _, _, _)
plan_tasks(st, nodes, category, max_depth, tick) ==
    IF nodes = <<>> THEN st
    ELSE plan_tasks(
           [q |-> add_task(st.q, st.next_id, TASK_TYPE_EXTRACT_NODE,
                           [NoPayload EXCEPT !.node_name = Head(nodes),
                                             !.category = category,
                                             !.max_depth = max_depth],
                           1, st.clock + tick),
            next_id |-> st.next_id + 1,
            clock |-> st.clock + tick],
           Tail(nodes), category, max_depth, tick)

RECURSIVE plan_all_tasks(_, _, _, _, _)
plan_all_tasks(st, parsed_structure, k, max_depth, tick) ==
    IF k > Len(CategoryOrder) THEN st
    ELSE plan_all_tasks(
           plan_tasks(st, parsed_structure[CategoryOrder[k]], CategoryOrder[k],
                      max_depth, tick),
           parsed_structure, k + 1, max_depth, tick)

(* StructurePlannerAgent.execute_task; "failed" stands for a retrieval or  *)
(* LLM error, an unparseable answer or a missing category key              *)
ExecutePlanTask ==
    /\ steps < MaxQueueOps
    /\ steps' = steps + 1
    /\ call.op = "get_next_task"
    /\ call.ret
    /\ call.task.type = TASK_TYPE_PLAN_STRUCTURE
    /\ IF call.task.payload.user_topic = ""
       THEN HandlerFails("plan_structure", "")
       ELSE \E ok \in BOOLEAN :
              IF ~ok
              THEN HandlerFails("plan_structure", "")
              ELSE \E parsed_structure \in PlanInputs, tick \in {0, 1} :
                     LET r  == initialize_industry_graph(Graph, parsed_structure)
                         st == plan_all_tasks(
                                 [q |-> pending_tasks, next_id |-> next_id,
                                  clock |-> clock],
                                 parsed_structure, 1,
                                 call.task.payload.max_depth, tick)
                     IN  /\ structure' = r.g.structure
                         /\ node_details' = r.g.node_details
                         /\ flags' = [flags EXCEPT !.structure_planned = TRUE]
                         /\ pending_tasks' = st.q
                         /\ next_id' = st.next_id
                         /\ clock' = st.clock
                         /\ complete_task(current_processing_task_id, "success")
                         /\ call' = [NoCall EXCEPT !.op = "plan_structure",
                                        !.other = "planned", !.ret = TRUE,
                                        !.plan = parsed_structure,
                                        !.task = call.task]
                         /\ UNCHANGED <<verdicts, verification, matching, orch, popped>>

(* NodeExtractorAgent *)

(* what verify_claim does for one claim *)
Verdicts == {"verified", "rejected", "raised"}

(* what the LLM's answer parses to for node n; items are names, and an    *)
(* item may be blank                                                       *)
ExtractionOutputs(n) ==
    {NoneBundle, EmptyDict, NotADict,
     Dict(n, "", <<>>, <<>>, <<>>, <<>>),
     Dict(n, "d", <<>>, <<>>, <<>>, <<>>),
     Dict(n, "", <<"A">>, <<"B">>, <<>>, <<>>),
     Dict(n, "d", <<"">>, <<>>, <<"B", "A">>, <<>>)}

(* line 198: the items that are non-blank strings *)
ItemsCleaned(items) == SelectSeq(items, LAMBDA x : x # "")

(* the claims _match_evidence submits to the verifier for bundle b *)
ClaimPairs(b) ==
    {pr \in ListFieldSet \X Names : InList(pr[2], b[pr[1]])}

Perms(s) ==
    {[i \in 1..Len(s) |-> s[q[i]]] :
       q \in {r \in [1..Len(s) -> 1..Len(s)] :
                \A i, j \in 1..Len(s) : r[i] = r[j] => i = j}}

(* as_completed yields the futures of a field in any order *)
CompletionOrders(b) ==
    {o \in [ListFieldSet ->
              UNION {Perms(ItemsCleaned(b[f])) : f \in ListFieldSet}] :
       \A f \in ListFieldSet : o[f] \in Perms(ItemsCleaned(b[f]))}

(* lines 225-258: the items of a field whose verdict is verified, in       *)
(* completion order; a verdict that raised is logged and the item dropped  *)
verified_items(order, field, v) ==
    SelectSeq(order, LAMBDA x : v[<<field, x>>] = "verified")

(* _match_evidence: docs is "none" for an empty retrieval result; v is the *)
(* verdict per submitted claim, o the completion order per field, dv the   *)
(* verdict on the description.  An exception of the description's          *)
(* verification leaves the bundle as mutated so far and execute_task       *)
(* (lines 148-150) marks it.                                               *)
match_evidence(extracted_data, docs, v, o, dv) ==
    IF docs = "none"
    THEN [data |-> extracted_data, verified |-> {}]
    ELSE [data |->
            [extracted_data EXCEPT
               !.input_elements = verified_items(o["input_elements"], "input_elements", v),
               !.output_products = verified_items(o["output_products"], "output_products", v),
               !.key_technologies = verified_items(o["key_technologies"], "key_technologies", v),
               !.representative_companies =
                  verified_items(o["representative_companies"], "representative_companies", v),
               !.evidence_details =
                  {pr \in DOMAIN v : v[pr] = "verified"}
                    \cup (IF extracted_data.description # "" /\ dv = "verified"
                          THEN {<<"description", "">>} ELSE {}),
               !.filtered_items = {pr \in DOMAIN v : v[pr] = "rejected"},
               !.error = IF extracted_data.description # "" /\ dv = "raised"
                         THEN "source_tracing_error" ELSE @],
          verified |-> {pr \in DOMAIN v : v[pr] = "verified"}]

(* an expansion that enqueues a task for every candidate, new or not *)
RECURSIVE expand_items_always(_, _, _, _, _, _)
expand_items_always(st, items, category, current_depth, max_depth, tick) ==
    IF items = <<>> THEN st
    ELSE LET item == Head(items)
             r == add_node_to_structure(st.g, item, category)
             st1 == IF item = "" THEN st
                    ELSE [g |-> r.g,
                          q |-> add_task(st.q, st.next_id, TASK_TYPE_EXTRACT_NODE,
                                         [NoPayload EXCEPT
                                            !.node_name = item,
                                            !.category = category,
                                            !.depth = current_depth + 1,
                                            !.max_depth = max_depth],
                                         1, st.clock + tick),
                          next_id |-> st.next_id + 1,
                          clock |-> st.clock + tick]
         IN  expand_items_always(st1, Tail(items), category, current_depth,
                                 max_depth, tick)

(* _expand_nodes, one field: st is [g, q, next_id, clock]; a new node gets *)
(* an extract task of priority 1 one level deeper.  (Items longer than 20  *)
(* characters are skipped; the names here are short.)                      *)
RECURSIVE expand_items(_, _, _, _, _, _)
expand_items(st, items, category, current_depth, max_depth, tick) ==
    IF items = <<>> THEN st
    ELSE LET item == Head(items)
             r == add_node_to_structure(st.g, item, category)
             st1 == IF item = "" THEN st
                    ELSE IF ~r.ret THEN [st EXCEPT !.g = r.g]
                    ELSE [g |-> r.g,
                          q |-> add_task(st.q, st.next_id, TASK_TYPE_EXTRACT_NODE,
                                         [NoPayload EXCEPT
                                            !.node_name = item,
                                            !.category = category,
                                            !.depth = current_depth + 1,
                                            !.max_depth = max_depth],
                                         1, st.clock + tick),
                          next_id |-> st.next_id + 1,
                          clock |-> st.clock + tick]
         IN  expand_items(st1, Tail(items), category, current_depth,
                          max_depth, tick)

expand_nodes(st, extracted_data, current_depth, max_depth, tick) ==
    expand_items(
      expand_items(st, extracted_data.input_elements, "upstream",
                   current_depth, max_depth, tick),
      extracted_data.output_products, "downstream", current_depth, max_depth,
      tick)

(* raw_response, by what clean_and_parse_json makes of it (lines 114-121): *)
(* None, an empty mapping, or a value that is no mapping                   *)
RawResponse(parsed) ==
    IF parsed.kind = "none" THEN "not json"
    ELSE IF parsed.kind = "empty" THEN "{}"
    ELSE IF parsed.kind = "other" THEN "7"
    ELSE "{...}"

(* a placeholder that keeps the error marker only *)
ParseFailure_without_raw(node_name, raw_response) ==
    [BlankBundle("dict") EXCEPT !.entity_name = node_name,
                                !.description = "JSON parse failure",
                                !.error = "JSON parse error"]

(* lines 125-132: the placeholder saved when the answer is no JSON object *)
ParseFailure(node_name, raw_response) ==
    [BlankBundle("dict") EXCEPT !.entity_name = node_name,
                                !.description = "JSON parse failure",
                                !.raw_llm_output = raw_response,
                                !.error = "JSON parse error"]

(* lines 136-137 *)
has_content(extracted_data) ==
    \/ extracted_data.description # ""
    \/ \E f \in ListFieldSet : extracted_data[f] # <<>>

(* the collaborators' behaviour during one execute_task on node n *)
ExtractEnvs(n) ==
    {[docs |-> "raised", llm |-> NoneBundle, v |-> <<>>,
      o |-> [f \in ListFieldSet |-> <<>>], dv |-> "rejected", tick |-> 0]}
    \cup UNION {UNION {
           {[docs |-> d, llm |-> l, v |-> vv, o |-> oo, dv |-> x, tick |-> tk] :
              vv \in [IF d = "some" THEN ClaimPairs(l) ELSE {} -> Verdicts],
              oo \in IF d = "some" THEN CompletionOrders(l)
                     ELSE {[f \in ListFieldSet |-> ItemsCleaned(l[f])]},
              x \in IF d = "some" /\ l.description # "" /\ l.kind = "dict"
                    THEN Verdicts ELSE {"rejected"},
              tk \in IF ItemsCleaned(l.input_elements \o l.output_products) # <<>>
                     THEN {0, 1} ELSE {0}} :
         l \in ExtractionOutputs(n)} : d \in {"none", "some"}}

(* an expansion guard that still expands at the last level *)
may_expand_at_limit(current_depth, max_depth) == current_depth <= max_depth

(* line 154 *)
may_expand(current_depth, max_depth) == current_depth < max_depth

(* lines 153-162: expansion, update_node_details, complete_task(success) *)
SaveExtraction(node_name, payload, extracted_data, tick, parsed) ==
    LET st0 == [g |-> Graph, q |-> pending_tasks, next_id |-> next_id,
                clock |-> clock]
        st  == IF may_expand(payload.depth, payload.max_depth)
               THEN expand_nodes(st0, extracted_data, payload.depth,
                                 payload.max_depth, tick)
               ELSE st0
        r   == update_node_details(st.g, node_name, extracted_data)
    IN  /\ structure' = r.g.structure
        /\ node_details' = r.g.node_details
        /\ pending_tasks' = st.q
        /\ next_id' = st.next_id
        /\ clock' = st.clock
        /\ complete_task(current_processing_task_id, "success")
        /\ call' = [NoCall EXCEPT !.op = "execute_task", !.name = node_name,
                                  !.other = "written", !.ret = TRUE,
                                  !.task = call.task, !.llm = parsed]

(* NodeExtractorAgent.execute_task *)
ExecuteExtractTask ==
    /\ steps < MaxQueueOps
    /\ steps' = steps + 1
    /\ UNCHANGED <<orch, popped, verification, matching>>
    /\ call.op = "get_next_task"
    /\ call.ret
    /\ call.task.type = TASK_TYPE_EXTRACT_NODE
    /\ LET payload == call.task.payload
           node_name == payload.node_name
       IN  IF node_name = ""
           THEN HandlerFails("execute_task", node_name)
           ELSE \E e \in ExtractEnvs(node_name) :
                  IF e.docs = "raised"
                  THEN HandlerFails("execute_task", node_name)
                  ELSE IF e.llm.kind # "dict"
                  THEN /\ SaveExtraction(node_name, payload,
                                         ParseFailure(node_name,
                                                      RawResponse(e.llm)),
                                         e.tick, e.llm)
                       /\ verdicts' = {}
                       /\ UNCHANGED flags
                  ELSE IF ~has_content(e.llm)
                  THEN /\ complete_task(current_processing_task_id, "success")
                       /\ call' = [NoCall EXCEPT !.op = "execute_task",
                                      !.name = node_name, !.other = "skipped",
                                      !.task = call.task, !.llm = e.llm]
                       /\ verdicts' = {}
                       /\ UNCHANGED <<graph_vars, pending_tasks, next_id, clock>>
                  ELSE LET m == match_evidence(e.llm, e.docs, e.v, e.o, e.dv)
                       IN  /\ SaveExtraction(node_name, payload, m.data, e.tick,
                                              e.llm)
                           /\ verdicts' = m.verified
                           /\ UNCHANGED flags

NextExtract ==
    \/ RunPipeline
    \/ GetNextTask
    \/ ExecutePlanTask
    \/ ExecuteExtractTask

SpecExtract == Init /\ [][NextExtract]_vars

(* C1: every item in the four list fields of the bundle execute_task wrote *)
(* with update_node_details is an item verify_claim verified during that   *)
(* task.                                                                   *)
C1_WrittenItemsAreVerified ==
    (call.op = "execute_task" /\ call.other = "written")
        => \A f \in ListFieldSet :
              \A i \in 1..Len(node_details[call.name][f]) :
                 <<f, node_details[call.name][f][i]>> \in verdicts

(* C11: get_next_task returns a task id at most once, and a popped task is *)
(* never pending again, whether its handler succeeded or failed.           *)
C11_TaskPoppedAtMostOnce ==
    /\ \A i, j \in 1..Len(popped) : popped[i] = popped[j] => i = j
    /\ \A i \in 1..Len(popped), k \in 1..Len(pending_tasks) :
          pending_tasks[k].id # popped[i]

(* two tasks were popped, one handler succeeded and one failed, and tasks  *)
(* the handlers enqueued are pending                                       *)
C11_Witness ==
    /\ Len(popped) >= 2
    /\ \E i \in 1..Len(completed_tasks) : completed_tasks[i].status = "success"
    /\ \E i \in 1..Len(completed_tasks) : completed_tasks[i].status = "failed"

(* the tasks enqueued by the step: those whose id the queue had not given *)
(* out before                                                              *)
NewTasks ==
    {pending_tasks'[k] : k \in {i \in 1..Len(pending_tasks') :
                                  pending_tasks'[i].id >= next_id}}

(* C21: no extract task is ever pending with a depth above its max_depth,  *)
(* and the handling of a node at depth equal to max_depth writes its       *)
(* details but changes no category sequence and enqueues no task.          *)
C21_NoTaskBeyondMaxDepth ==
    /\ [](\A k \in 1..Len(pending_tasks) :
            pending_tasks[k].type = TASK_TYPE_EXTRACT_NODE
              => pending_tasks[k].payload.depth
                   <= pending_tasks[k].payload.max_depth)
    /\ [][(/\ call'.op = "execute_task"
           /\ call'.other = "written"
           /\ call'.task.payload.depth = call'.task.payload.max_depth)
          => /\ call'.name \in DOMAIN node_details'
             /\ structure' = structure
             /\ NewTasks = {}
             /\ next_id' = next_id]_vars

(* A was handled at depth 0 with max_depth 0; its data names B, which is  *)
(* in no category and has no task                                          *)
C21_Witness ==
    /\ call.op = "execute_task"
    /\ call.other = "written"
    /\ call.name = "A"
    /\ call.task.payload.depth = call.task.payload.max_depth
    /\ InList("B", node_details["A"].output_products)
    /\ ~InSomeSequence(structure, "B")
    /\ pending_tasks = <<>>

CompletedWithSuccess ==
    /\ Len(completed_tasks') = Len(completed_tasks) + 1
    /\ completed_tasks'[Len(completed_tasks')].status = "success"

(* C31: when the answer of the generation collaborator parses to a mapping *)
(* whose four list fields and description are all empty, execute_task      *)
(* leaves node_details and the category sequences as they were, enqueues   *)
(* no task and completes the task with status success.                     *)
C31_EmptyBundleIsDiscarded ==
    [][(/\ call'.op = "execute_task"
        /\ call'.other # "failed"
        /\ IsDict(call'.llm)
        /\ ~has_content(call'.llm))
       => /\ node_details' = node_details
          /\ structure' = structure
          /\ NewTasks = {}
          /\ CompletedWithSuccess]_vars

(* C32: when the answer of the generation collaborator does not parse to   *)
(* a mapping, execute_task writes for the node a placeholder bundle with   *)
(* the raw answer and an error marker, verifies nothing, changes no        *)
(* category sequence, enqueues no task and completes the task with status  *)
(* success.                                                                *)
C32_UnparseableAnswerLeavesPlaceholder ==
    [][(/\ call'.op = "execute_task"
        /\ call'.other # "failed"
        /\ ~IsDict(call'.llm))
       => /\ call'.other = "written"
          /\ call'.name \in DOMAIN node_details'
          /\ node_details'[call'.name].raw_llm_output
                = RawResponse(call'.llm)
          /\ node_details'[call'.name].error # ""
          /\ \A f \in ListFieldSet : node_details'[call'.name][f] = <<>>
          /\ verdicts' = {}
          /\ structure' = structure
          /\ NewTasks = {}
          /\ next_id' = next_id
          /\ CompletedWithSuccess]_vars

(* the answer for A, handled below its max_depth, was no mapping; the      *)
(* placeholder is A's bundle and the task is recorded as a success         *)
C32_Witness ==
    /\ call.op = "execute_task"
    /\ call.other = "written"
    /\ call.name = "A"
    /\ call.llm = NotADict
    /\ call.task.payload.depth < call.task.payload.max_depth
    /\ node_details["A"].raw_llm_output = "7"
    /\ node_details["A"].error = "JSON parse error"
    /\ completed_tasks[Len(completed_tasks)].status = "success"

(* the extract tasks that are enqueued or in the hands of a handler *)
ExtractTasksAlive ==
    {pending_tasks[k] : k \in {i \in 1..Len(pending_tasks) :
                                 pending_tasks[i].type = TASK_TYPE_EXTRACT_NODE}}
    \cup (IF call.op = "get_next_task" /\ call.ret
              /\ call.task.type = TASK_TYPE_EXTRACT_NODE
          THEN {call.task} ELSE {})

(* C38: of the extract_node tasks of a run no two are for the same entity  *)
(* name, whatever the planner proposed and whatever the expansions found.  *)
C38_OneExtractTaskPerName ==
    \A t, u \in ExtractTasksAlive :
       t.payload.node_name = u.payload.node_name => t.id = u.id

----------------------------------------------------------------------------
(* Orchestrator.coordinate_workflow on a workflow state that the store     *)
(* and queue methods have prepared                                         *)

STALL_PATIENCE_THRESHOLD == 5

(* Orchestrator.agents: the task types with a registered agent *)
Agents == {TASK_TYPE_PLAN_STRUCTURE, TASK_TYPE_EXTRACT_NODE}

(* a completeness test that looks at the planning flag only *)
are_all_nodes_extracted_flag_only(g, fl) == fl.structure_planned

are_all_nodes_extracted(g, fl) ==
    /\ fl.structure_planned
    /\ \A k \in 1..Len(CategoryOrder) :
          \A i \in 1..Len(g.structure[CategoryOrder[k]]) :
             DetailsGet(g.node_details, g.structure[CategoryOrder[k]][i]).kind
                # "none"

(* a cap that never bites *)
cap_reached_never(iteration_count, max_workflow_iterations) == FALSE

(* line 68 *)
cap_reached(iteration_count, max_workflow_iterations) ==
    iteration_count >= max_workflow_iterations

(* a patience test that needs one more empty poll *)
stalled_after(stall_patience_counter) ==
    stall_patience_counter > STALL_PATIENCE_THRESHOLD

(* line 83 *)
stalled(stall_patience_counter) ==
    stall_patience_counter >= STALL_PATIENCE_THRESHOLD

(* task.get('payload', {}) on the dict a handler is called with *)
PayloadOf(d) == IF "payload" \in DOMAIN d THEN d.payload ELSE NoPayload

(* the handlers' first test: no user_topic (planner, lines 65-73) or no    *)
(* node_name (extractor, lines 59-70) in the payload of the dict they got  *)
HandlerFindsNoSubject(task_type, d) ==
    IF task_type = TASK_TYPE_PLAN_STRUCTURE
    THEN PayloadOf(d).user_topic = ""
    ELSE PayloadOf(d).node_name = ""

(* a dispatch without the failure boundary of lines 49-53: the handler's   *)
(* exception leaves _execute_task_type                                     *)
execute_task_type_unguarded(c, task) ==
    IF task.type \notin Agents
    THEN [c |-> complete_task_on(c, task.id, "failed"), escaped |-> FALSE]
    ELSE [c |-> complete_task_on(c, c.current_processing_task_id, "failed"),
          escaped |-> TRUE]

(* _execute_task_type: line 47 hands the handler task['payload'], in which *)
(* the handler finds no payload entry; it completes the current task as    *)
(* failed and raises, and line 53 completes the task as failed again.      *)
(* Without a registered agent line 56 completes the task as failed.        *)
execute_task_type(c, task) ==
    IF task.type \notin Agents
    THEN [c |-> complete_task_on(c, task.id, "failed"), escaped |-> FALSE]
    ELSE [c |-> complete_task_on(
                  complete_task_on(c, c.current_processing_task_id, "failed"),
                  task.id, "failed"),
          escaped |-> FALSE]

(* the state coordinate_workflow is called on: a planned structure, node   *)
(* details written for some nodes, tasks added at distinct instants        *)
SetupInitialize == orch.pc = "idle" /\ steps < MaxSetupOps /\ InitializeIndustryGraph
SetupUpdate == orch.pc = "idle" /\ steps < MaxSetupOps /\ UpdateNodeDetails
SetupAddTask ==
    orch.pc = "idle" /\ steps < MaxSetupOps /\ AddTask /\ clock' = clock + 1

(* lines 62-65; the cap is the constructor's max_workflow_iterations *)
StartCoordinate ==
    /\ orch.pc = "idle"
    /\ \E cap \in {1, STALL_PATIENCE_THRESHOLD, MaxIterations} :
         orch' = [NoOrch EXCEPT
                    !.pc = "running", !.max_workflow_iterations = cap,
                    !.start = [empty |-> pending_tasks = <<>>,
                               resolved |-> are_all_nodes_extracted(Graph, flags),
                               structure |-> structure,
                               node_details |-> node_details]]
    /\ call' = [NoCall EXCEPT !.op = "coordinate_workflow"]
    /\ UNCHANGED <<graph_vars, queue_vars, verdicts, verification, matching, popped, steps>>

Ended(reason) == [orch EXCEPT !.pc = "done", !.ended = reason]

(* one pass through the while loop of lines 67-95 *)
CoordinateIteration ==
    /\ orch.pc = "running"
    /\ UNCHANGED <<structure, node_details, next_id, clock, verdicts, verification, matching, steps>>
    /\ IF flags.extraction_complete
       THEN /\ orch' = Ended("complete")
            /\ call' = [NoCall EXCEPT !.op = "loop_exit"]
            /\ UNCHANGED <<flags, pending_tasks, completed_tasks, error_count,
                           current_processing_task_id, popped>>
       ELSE IF cap_reached(orch.iteration_count, orch.max_workflow_iterations)
       THEN /\ orch' = Ended("iteration_cap")
            /\ call' = [NoCall EXCEPT !.op = "loop_exit"]
            /\ UNCHANGED <<flags, pending_tasks, completed_tasks, error_count,
                           current_processing_task_id, popped>>
       ELSE IF pending_tasks = <<>>
       THEN /\ call' = [NoCall EXCEPT !.op = "poll"]
            /\ UNCHANGED <<pending_tasks, completed_tasks, error_count,
                           current_processing_task_id, popped>>
            /\ LET o == [orch EXCEPT !.polls = @ + 1,
                                     !.stall_patience_counter = @ + 1]
               IN  IF are_all_nodes_extracted(Graph, flags)
                   THEN /\ flags' = [flags EXCEPT !.extraction_complete = TRUE]
                        /\ orch' = [o EXCEPT !.pc = "done", !.ended = "complete"]
                   ELSE /\ UNCHANGED flags
                        /\ orch' = IF stalled(o.stall_patience_counter)
                                   THEN [o EXCEPT !.pc = "done", !.ended = "stalled"]
                                   ELSE [o EXCEPT !.iteration_count = @ + 1]
       ELSE LET h == pop_head(pending_tasks)
                r == execute_task_type(
                       [Completion EXCEPT !.current_processing_task_id = h.task.id],
                       h.task)
            IN  /\ h.task.type \in Agents
                     => HandlerFindsNoSubject(h.task.type, h.task.payload)
                /\ pending_tasks' = h.rest
                /\ popped' = Append(popped, h.task.id)
                /\ current_processing_task_id' = r.c.current_processing_task_id
                /\ completed_tasks' = r.c.completed_tasks
                /\ error_count' = r.c.error_count
                /\ call' = [NoCall EXCEPT !.op = "dispatch", !.ret = TRUE,
                                          !.task = h.task]
                /\ UNCHANGED flags
                /\ orch' = IF r.escaped
                           THEN [orch EXCEPT !.pc = "crashed", !.polls = @ + 1,
                                   !.dispatched = Append(@, h.task.id)]
                           ELSE [orch EXCEPT !.polls = @ + 1,
                                   !.stall_patience_counter = 0,
                                   !.iteration_count = @ + 1,
                                   !.dispatched = Append(@, h.task.id)]

NextOrch ==
    \/ SetupInitialize
    \/ SetupUpdate
    \/ SetupAddTask
    \/ StartCoordinate
    \/ CoordinateIteration

SpecOrch == Init /\ [][NextOrch]_vars

(* the loop is scheduled until it ends *)
SpecOrchLive == SpecOrch /\ WF_vars(CoordinateIteration)

(* the completion records that carry task id *)
RecordsOf(id) == {k \in 1..Len(completed_tasks) : completed_tasks[k].id = id}

(* C12: when coordinate_workflow has ended, the completion log holds       *)
(* exactly one record for each dispatched task and error_count is the      *)
(* number of dispatched tasks that failed.                                 *)
C12_OneCompletionPerDispatchedTask ==
    orch.pc = "done"
        => /\ \A i \in 1..Len(orch.dispatched) :
                 Cardinality(RecordsOf(orch.dispatched[i])) = 1
           /\ Len(completed_tasks) = Len(orch.dispatched)
           /\ error_count =
                 Cardinality({i \in 1..Len(orch.dispatched) :
                    \E k \in RecordsOf(orch.dispatched[i]) :
                       completed_tasks[k].status = "failed"})

(* C13: started on an empty queue with unresolved nodes and a cap of at    *)
(* least the stall patience, coordinate_workflow ends at its 5th empty     *)
(* poll as stalled, with extraction_complete unset and the graph as it     *)
(* was.                                                                    *)
C13_StallAfterPatience ==
    (/\ orch.pc # "idle"
     /\ orch.start.empty
     /\ ~orch.start.resolved
     /\ orch.max_workflow_iterations >= STALL_PATIENCE_THRESHOLD)
        => /\ orch.polls <= STALL_PATIENCE_THRESHOLD
           /\ orch.stall_patience_counter = orch.polls
           /\ orch.pc = "done" <=> orch.polls = STALL_PATIENCE_THRESHOLD
           /\ orch.pc = "done" => orch.ended = "stalled"
           /\ ~flags.extraction_complete
           /\ structure = orch.start.structure
           /\ node_details = orch.start.node_details

C13_Witness ==
    /\ orch.pc = "done"
    /\ orch.ended = "stalled"
    /\ orch.start.empty
    /\ orch.polls = STALL_PATIENCE_THRESHOLD
    /\ orch.max_workflow_iterations = STALL_PATIENCE_THRESHOLD
    /\ \E c \in Categories : structure[c] # <<>>

(* C14: extraction_complete is set only by a poll that found the queue     *)
(* empty and the nodes resolved, so a run in the complete state has a      *)
(* planned structure, no pending task and a non-null node_details entry    *)
(* for every name of the three category sequences.                         *)
C14_CompleteOnlyWhenResolved ==
    flags.extraction_complete
        => /\ orch.pc = "done"
           /\ orch.ended = "complete"
           /\ call.op = "poll"
           /\ flags.structure_planned
           /\ pending_tasks = <<>>
           /\ \A c \in Categories : \A i \in 1..Len(structure[c]) :
                 /\ structure[c][i] \in DOMAIN node_details
                 /\ node_details[structure[c][i]].kind # "none"

C14_Witness ==
    /\ flags.extraction_complete
    /\ orch.ended = "complete"
    /\ \E c \in Categories : structure[c] # <<>>

(* C15: coordinate_workflow ends in every run; it polls get_next_task at   *)
(* most max_workflow_iterations times, dispatches nothing beyond the cap,  *)
(* and leaves the graph in place.                                          *)
C15_CoordinateTerminatesWithinCap ==
    /\ [](orch.pc # "idle" =>
            /\ orch.polls <= orch.max_workflow_iterations
            /\ Len(orch.dispatched) <= orch.polls
            /\ structure = orch.start.structure
            /\ node_details = orch.start.node_details)
    /\ (orch.pc = "running" ~> orch.pc = "done")

(* the cap ended the run while tasks were still pending *)
C15_Witness ==
    /\ orch.pc = "done"
    /\ orch.ended = "iteration_cap"
    /\ orch.polls = orch.max_workflow_iterations
    /\ orch.dispatched # <<>>
    /\ pending_tasks # <<>>

(* C16: after the dispatch of a task whose handler raised, or whose type   *)
(* has no agent, the task is completed as failed and the loop is still     *)
(* running.                                                                *)
C16_HandlerFailureStaysInLoop ==
    call.op = "dispatch"
        => /\ orch.pc = "running"
           /\ completed_tasks # <<>>
           /\ completed_tasks[Len(completed_tasks)] =
                 [id |-> call.task.id, status |-> "failed"]
           /\ current_processing_task_id = 0

(* a second task was dispatched after a failure; one of the two had a      *)
(* handler that raised, the other no agent                                 *)
C16_Witness ==
    /\ call.op = "dispatch"
    /\ Len(orch.dispatched) = 2
    /\ Cardinality(RecordsOf(orch.dispatched[1])) = 2
    /\ call.task.type \notin Agents

----------------------------------------------------------------------------
(* GraphRefiner: refine_graph on the graph the store holds *)

(* names a suggestion may carry that the graph does not know *)
NewNames == {"N", "M"}

Suggestion(target_node, source_nodes) ==
    [target_node |-> target_node, source_nodes |-> source_nodes,
     well_formed |-> TRUE]

(* an entry of merge_suggestions that is no mapping (a string, a number):  *)
(* suggestion.get raises on it                                             *)
NotASuggestion ==
    [target_node |-> "", source_nodes |-> <<>>, well_formed |-> FALSE]

(* one merge suggestion of the LLM; "" is a missing target_node *)
Suggestions ==
    {Suggestion("", <<"A">>), Suggestion("A", <<>>)}
    \cup {Suggestion(tg, src) :
            tg \in {"A", "N"},
            src \in {<<"A">>, <<"B">>, <<"A", "B">>, <<"M">>}}

(* merge_suggestions: one suggestion, or two that touch the same names, or *)
(* a list with an entry that is no suggestion                              *)
SuggestionLists ==
    {<<s>> : s \in Suggestions}
    \cup {<<Suggestion("N", <<"A">>), Suggestion("N", <<"B">>)>>,
          <<Suggestion("N", <<"A">>), Suggestion("A", <<"N">>)>>,
          <<Suggestion("A", <<"B">>), Suggestion("B", <<"A">>)>>,
          <<Suggestion("N", <<"A">>), NotASuggestion>>,
          <<NotASuggestion>>}

(* what the answer of the synonym collaborator parses to (lines 64-75):    *)
(* nothing (the call raised or the text is no JSON), a value that is no    *)
(* mapping, or a mapping; of a mapping refine_graph reads the key          *)
(* merge_suggestions only, whatever else it holds                          *)
RefinerAnswers ==
    {[kind |-> k, merge_suggestions |-> <<>>, invalid_nodes |-> {}] :
       k \in {"unparseable", "other"}}
    \cup {[kind |-> "dict", merge_suggestions |-> ms, invalid_nodes |-> {}] :
            ms \in SuggestionLists \cup {<<>>}}
    \cup {[kind |-> "dict", merge_suggestions |-> ms, invalid_nodes |-> {"B"}] :
            ms \in {<<>>, <<Suggestion("N", <<"A">>)>>}}

(* what call.answer keeps of an answer *)
AnswerRecord(answer) ==
    [kind |-> answer.kind,
     malformed_entry |-> \E i \in 1..Len(answer.merge_suggestions) :
                            ~answer.merge_suggestions[i].well_formed,
     invalid_nodes |-> answer.invalid_nodes]

(* list(set(l)): the distinct items of l in the iteration order of the set, *)
(* given here as an order ord on all items                                  *)
ListOfSet(l, ord) == SelectSeq(ord, LAMBDA x : InList(x, l))

(* _merge_node_content on two mappings *)
merge_node_content(target, source, ord) ==
    [target EXCEPT
       !.kind = "dict",
       !.input_elements = ListOfSet(@ \o source.input_elements, ord),
       !.output_products = ListOfSet(@ \o source.output_products, ord),
       !.key_technologies = ListOfSet(@ \o source.key_technologies, ord),
       !.representative_companies =
            ListOfSet(@ \o source.representative_companies, ord)]

(* line 108 *)
CleanSources(sg) ==
    SelectSeq(sg.source_nodes, LAMBDA s : s # sg.target_node)

(* the first source that is a key of details, "" when there is none *)
FirstKnown(sources, details) ==
    IF \E i \in 1..Len(sources) : sources[i] \in DOMAIN details
    THEN sources[CHOOSE i \in 1..Len(sources) :
                   /\ sources[i] \in DOMAIN details
                   /\ \A j \in 1..(i-1) : sources[j] \notin DOMAIN details]
    ELSE ""

(* lines 126-130 over the sources in order: st is [details, raised];       *)
(* target_detail is details[target], a mapping.  A source whose details    *)
(* are None or no mapping makes source.get raise.                          *)
RECURSIVE merge_sources(_, _, _, _)
merge_sources(st, target, sources, ord) ==
    IF sources = <<>> \/ st.raised THEN st
    ELSE LET s == Head(sources) IN
         IF s \notin DOMAIN st.details
         THEN merge_sources(st, target, Tail(sources), ord)
         ELSE IF ~IsDict(st.details[s])
         THEN [st EXCEPT !.raised = TRUE]
         ELSE merge_sources(
                [st EXCEPT !.details =
                   DictDel(DictSet(@, target,
                                   merge_node_content(@[target], @[s], ord)),
                           s)],
                target, Tail(sources), ord)

(* lines 115-130: part A of one suggestion *)
merge_details(details, target, sources, ord) ==
    LET target_detail == IF target \in DOMAIN details THEN details[target]
                         ELSE EmptyDict
        first == FirstKnown(sources, details)
    IN  IF ~Truthy(target_detail)
        THEN IF first = "" THEN [details |-> details, raised |-> FALSE]
             ELSE IF ~IsDict(details[first])
             THEN [details |-> details, raised |-> TRUE]
             ELSE merge_sources(
                    [details |-> DictSet(details, target,
                                   [details[first] EXCEPT !.kind = "dict",
                                                          !.entity_name = target]),
                     raised |-> FALSE],
                    target, sources, ord)
        ELSE IF first = "" THEN [details |-> details, raised |-> FALSE]
        ELSE IF ~IsDict(target_detail)
        THEN [details |-> details, raised |-> TRUE]
        ELSE merge_sources([details |-> details, raised |-> FALSE],
                           target, sources, ord)

(* a choice that lets every found source overrule the ones before it *)
target_category_last_source(su, target, sources) ==
    IF \E k \in 1..Len(CategoryOrder) : InList(target, su[CategoryOrder[k]])
    THEN CategoryOrder[CHOOSE k \in 1..Len(CategoryOrder) :
            /\ InList(target, su[CategoryOrder[k]])
            /\ \A j \in 1..(k-1) : ~InList(target, su[CategoryOrder[j]])]
    ELSE IF \E i \in 1..Len(sources) : InAnyCategory(su, sources[i])
    THEN LET s == sources[CHOOSE i \in 1..Len(sources) :
                     /\ InAnyCategory(su, sources[i])
                     /\ \A j \in (i+1)..Len(sources) :
                           ~InAnyCategory(su, sources[j])]
         IN  CategoryOrder[CHOOSE k \in 1..Len(CategoryOrder) :
                /\ InList(s, su[CategoryOrder[k]])
                /\ \A j \in 1..(k-1) : ~InList(s, su[CategoryOrder[j]])]
    ELSE "upstream"

(* lines 139-159 *)
target_category(su, target, sources) ==
    IF \E k \in 1..Len(CategoryOrder) : InList(target, su[CategoryOrder[k]])
    THEN CategoryOrder[CHOOSE k \in 1..Len(CategoryOrder) :
            /\ InList(target, su[CategoryOrder[k]])
            /\ \A j \in 1..(k-1) : ~InList(target, su[CategoryOrder[j]])]
    ELSE IF \E i \in 1..Len(sources) : InAnyCategory(su, sources[i])
    THEN LET s == sources[CHOOSE i \in 1..Len(sources) :
                     /\ InAnyCategory(su, sources[i])
                     /\ \A j \in 1..(i-1) : ~InAnyCategory(su, sources[j])]
         IN  CategoryOrder[CHOOSE k \in 1..Len(CategoryOrder) :
                /\ InList(s, su[CategoryOrder[k]])
                /\ \A j \in 1..(k-1) : ~InList(s, su[CategoryOrder[j]])]
    ELSE "upstream"

(* a rebuild that appends the target to its category without looking for  *)
(* it in the other lists                                                   *)
rebuild_lists_target_kept(su, target, sources) ==
    LET tc == target_category(su, target, sources) IN
    [cat \in Categories |->
       LET new_list == SelectSeq(su[cat], LAMBDA item :
                          ~InList(item, sources) /\ ~(item = target /\ cat = tc))
       IN  IF cat = tc THEN Append(new_list, target) ELSE new_list]

(* lines 162-185 *)
rebuild_lists(su, target, sources) ==
    LET tc == target_category(su, target, sources) IN
    [cat \in Categories |->
       LET new_list == SelectSeq(su[cat], LAMBDA item :
                          ~InList(item, sources) /\ item # target)
       IN  IF cat = tc THEN Append(new_list, target) ELSE new_list]

(* _apply_merges over the suggestions in order: st is [details, su,       *)
(* raised, target, sources], the last two being the merge applied last     *)
RECURSIVE apply_suggestions(_, _, _)
apply_suggestions(st, suggestions, ord) ==
    IF suggestions = <<>> \/ st.raised THEN st
    ELSE LET sg == Head(suggestions)
             target == sg.target_node
             sources == CleanSources(sg)
         IN  IF ~sg.well_formed
             THEN [st EXCEPT !.raised = TRUE]
             ELSE IF target = "" \/ sources = <<>>
             THEN apply_suggestions(st, Tail(suggestions), ord)
             ELSE LET a == merge_details(st.details, target, sources, ord) IN
                  IF a.raised
                  THEN [st EXCEPT !.details = a.details, !.raised = TRUE]
                  ELSE apply_suggestions(
                         [details |-> a.details,
                          su |-> rebuild_lists(st.su, target, sources),
                          raised |-> FALSE,
                          target |-> target,
                          sources |-> ListSet(sources),
                          last_merge |-> [target |-> target,
                                          sources |-> sources,
                                          before |-> st.su]],
                         Tail(suggestions), ord)

(* _apply_merges: details is the graph's own mapping, so what part A did   *)
(* before an exception stays; the structure is written at the end only     *)
apply_merges(g, suggestions, ord) ==
    LET st == apply_suggestions(
                [details |-> g.node_details,
                 su |-> [cat \in Categories |-> g.structure[cat]],
                 raised |-> FALSE, target |-> "", sources |-> {},
                 last_merge |-> NoMerge],
                suggestions, ord)
    IN  [g |-> [structure |->
                  IF st.raised THEN g.structure
                  ELSE [cat \in DOMAIN g.structure |->
                          IF cat \in Categories THEN st.su[cat]
                          ELSE g.structure[cat]],
                node_details |-> st.details],
         raised |-> st.raised, target |-> st.target, sources |-> st.sources,
         last_merge |-> st.last_merge]

(* refine_graph: nothing to do on an empty graph or without suggestions    *)
(* (an LLM error, an answer that is no JSON object, an empty list); an     *)
(* exception of _apply_merges is caught and the graph returned as it is    *)
RefineGraph ==
    /\ call.op # "refine_graph"
    /\ \E answer \in RefinerAnswers, ord \in Perms(<<"A", "B">>) :
         IF \/ ((\A c \in Categories : structure[c] = <<>>)
                    /\ DOMAIN node_details = {})
            \/ answer.kind # "dict"
            \/ answer.merge_suggestions = <<>>
         THEN /\ call' = [NoCall EXCEPT !.op = "refine_graph", !.other = "skipped",
                                        !.answer = AnswerRecord(answer)]
              /\ UNCHANGED <<structure, node_details>>
         ELSE LET r == apply_merges(Graph, answer.merge_suggestions, ord)
              IN  /\ structure' = r.g.structure
                  /\ node_details' = r.g.node_details
                  /\ call' = [NoCall EXCEPT
                                !.op = "refine_graph",
                                !.other = IF r.raised THEN "raised" ELSE "applied",
                                !.ret = ~r.raised,
                                !.name = r.target,
                                !.sources = r.sources,
                                !.answer = AnswerRecord(answer),
                                !.last_merge = r.last_merge]
    /\ UNCHANGED <<flags, queue_vars, verdicts, verification, matching, orch, popped, steps>>

(* the pipeline refines once, as its last step on the graph               *)
(* (report_generation_pipeline.py line 227): the graph is built before it. *)
(* The planner initializes it, and the extraction task of a node writes    *)
(* the details of that node, which initialize_industry_graph left None.    *)
BuildInitialize == call.op # "refine_graph" /\ InitializeIndustryGraph

BuildUpdate ==
    /\ call.op # "refine_graph"
    /\ steps < MaxSteps
    /\ \E n \in DOMAIN node_details :
         /\ node_details[n] = NoneBundle
         /\ \E b \in BundleInputs(n) :
              StoreStep(update_node_details(Graph, n, b),
                        [NoCall EXCEPT !.op = "update_node_details",
                                       !.name = n])
    /\ UNCHANGED flags

NextRefine ==
    \/ BuildInitialize
    \/ BuildUpdate
    \/ RefineGraph

SpecRefine == Init /\ [][NextRefine]_vars

(* the number of times name occurs in the three category sequences *)
Occurrences(s, name) ==
    Cardinality({pr \in Categories \X (1..(MaxPlanNodes + 2)) :
                   pr[2] <= Len(s[pr[1]]) /\ s[pr[1]][pr[2]] = name})

(* C17: after a refinement whose last applied merge is (target, sources),  *)
(* the target occurs exactly once in the three category sequences together *)
(* and no source occurs in any of them; a structure whose categories were  *)
(* pairwise disjoint still has pairwise disjoint categories.               *)
C17_MergeKeepsTargetOnce ==
    [][(call'.op = "refine_graph" /\ call'.other = "applied" /\ call'.name # "")
         => /\ Occurrences(structure', call'.name) = 1
            /\ \A s \in call'.sources : ~InSomeSequence(structure', s)
            /\ Disjoint(structure) => Disjoint(structure')]_vars

(* sources of two categories were merged into a brand-new target *)
C17_Witness ==
    /\ call.op = "refine_graph"
    /\ call.other = "applied"
    /\ call.name = "N"
    /\ call.sources = {"A", "B"}
    /\ "N" \in DOMAIN node_details
    /\ InSomeSequence(structure, "N")

(* C33: after refine_graph has run on the answer of the collaborator, no   *)
(* name the answer lists as invalid is in a category sequence or a key of  *)
(* node_details.                                                           *)
C33_InvalidNamesAreRemoved ==
    call.op = "refine_graph"
      => \A n \in call.answer.invalid_nodes :
            /\ ~InSomeSequence(structure, n)
            /\ n \notin DOMAIN node_details

(* the categories of su that hold name n *)
Occupied(su, n) == {c \in Categories : InList(n, su[c])}

(* the first category of S in the order upstream, midstream, downstream *)
FirstCategory(S) ==
    CategoryOrder[CHOOSE k \in 1..Len(CategoryOrder) :
                    /\ CategoryOrder[k] \in S
                    /\ \A j \in 1..(k-1) : CategoryOrder[j] \notin S]

(* C34: after _apply_merges the target of the merge applied last is in     *)
(* exactly one category: the category it occupied before the merge, if     *)
(* any; else the category of the first listed source that was in a         *)
(* category; else upstream.  The sources listed after that one have no     *)
(* say.                                                                    *)
C34_TargetCategoryPriority ==
    (/\ call.op = "refine_graph"
     /\ call.other = "applied"
     /\ call.last_merge.target # "")
      => LET m == call.last_merge
             found == {i \in 1..Len(m.sources) :
                         Occupied(m.before, m.sources[i]) # {}}
             first == CHOOSE i \in found : \A j \in found : i <= j
             expected ==
               IF Occupied(m.before, m.target) # {}
               THEN FirstCategory(Occupied(m.before, m.target))
               ELSE IF found # {}
               THEN FirstCategory(Occupied(m.before, m.sources[first]))
               ELSE "upstream"
         IN  \A c \in Categories :
               InList(m.target, structure[c]) <=> c = expected

(* N was in no category; of its sources A and B the first listed one, A,   *)
(* was upstream and B downstream: N is upstream                            *)
C34_Witness ==
    /\ call.op = "refine_graph"
    /\ call.other = "applied"
    /\ call.last_merge.target = "N"
    /\ call.last_merge.sources = <<"A", "B">>
    /\ Occupied(call.last_merge.before, "N") = {}
    /\ Occupied(call.last_merge.before, "A") = {"upstream"}
    /\ Occupied(call.last_merge.before, "B") = {"downstream"}
    /\ Occupied(structure, "N") = {"upstream"}

(* C35: when the answer of the synonym collaborator is malformed (no JSON, *)
(* a value that is no mapping, or a merge list with an entry that is no    *)
(* suggestion), refine_graph returns the graph with structure and          *)
(* node_details as they were before the call.                              *)
C35_MalformedAnswerChangesNothing ==
    [][(/\ call'.op = "refine_graph"
        /\ \/ call'.answer.kind # "dict"
           \/ call'.answer.malformed_entry)
       => /\ structure' = structure
          /\ node_details' = node_details]_vars

----------------------------------------------------------------------------
(* ReportGenerationPipeline.run from line 217 on: the plan_structure task  *)
(* is added, coordinate_workflow runs, then prune_industry_graph and       *)
(* refine_graph (lines 217-230).  The workflow state the loop starts on    *)
(* is the fresh one of a run, or one on which a graph was built before.    *)
PipelineBuildInitialize == orch.pc = "idle" /\ next_id = 1 /\ BuildInitialize

(* line 217 *)
PipelineAddPlanTask == orch.pc = "idle" /\ RunPipeline

(* line 223: coordinate_workflow has returned *)
PipelinePrune ==
    /\ orch.pc = "done"
    /\ call.op \notin {"prune_industry_graph", "refine_graph"}
    /\ PruneIndustryGraph

(* lines 226-227 *)
PipelineRefine ==
    /\ orch.pc = "done"
    /\ call.op = "prune_industry_graph"
    /\ RefineGraph

NextPipeline ==
    \/ PipelineBuildInitialize
    \/ PipelineAddPlanTask
    \/ StartCoordinate
    \/ CoordinateIteration
    \/ PipelinePrune
    \/ PipelineRefine

SpecPipeline == Init /\ [][NextPipeline]_vars

(* what the handler that _execute_task_type calls reads as its payload:    *)
(* line 47 hands it task['payload'], of which it takes .get('payload', {}) *)
HandlerPayload(task) == PayloadOf(task.payload)

(* C36: in a pipeline run refine_graph is executed at most once, only      *)
(* after coordinate_workflow has ended in the complete state with          *)
(* extraction_complete set, and only after prune_industry_graph has run.   *)
C36_RefineOnceAfterCompleteAndPrune ==
    [][/\ call.op # "refine_graph"
       /\ call'.op = "refine_graph"
            => /\ call.op = "prune_industry_graph"
               /\ orch.pc = "done"
               /\ orch.ended = "complete"
               /\ flags.extraction_complete]_vars

(* C39: the handler coordinate_workflow invokes for a dispatched task      *)
(* reads the payload that was given to add_task for that task: the         *)
(* user_topic of a plan_structure task, and node_name, category, depth and *)
(* max_depth of an extract_node task.                                      *)
C39_HandlerReadsTaskPayload ==
    (call.op = "dispatch" /\ call.task.type \in Agents)
      => HandlerPayload(call.task) = call.task.payload

----------------------------------------------------------------------------
(* A run whose tasks the handlers work off on the tasks themselves          *)
(* (execute_task(workflow_state, task), the signature of both handlers),    *)
(* after which coordinate_workflow is called on the emptied queue.          *)
HandledRun == orch.pc = "idle" /\ RunPipeline

HandledGetNextTask == orch.pc = "idle" /\ GetNextTask

HandledPlanTask == orch.pc = "idle" /\ ExecutePlanTask

HandledExtractTask == orch.pc = "idle" /\ ExecuteExtractTask

HandledCoordinate ==
    /\ pending_tasks = <<>>
    /\ current_processing_task_id = 0
    /\ completed_tasks # <<>>
    /\ StartCoordinate

NextHandled ==
    \/ HandledRun
    \/ HandledGetNextTask
    \/ HandledPlanTask
    \/ HandledExtractTask
    \/ HandledCoordinate
    \/ CoordinateIteration

SpecHandled == Init /\ [][NextHandled]_vars

(* every task that was enqueued has one completion record, with status     *)
(* success; the first of them is the plan_structure task of run()          *)
AllTasksSucceeded ==
    /\ next_id > 1
    /\ pending_tasks = <<>>
    /\ error_count = 0
    /\ \A id \in 1..(next_id - 1) :
          \E i \in 1..Len(completed_tasks) :
             /\ completed_tasks[i].id = id
             /\ completed_tasks[i].status = "success"

(* C40: when the plan_structure task and every extract_node task of a run  *)
(* have completed with status success and the iteration cap is not         *)
(* reached, coordinate_workflow ends in the complete state, with            *)
(* extraction_complete set, and not in a stall abort.                       *)
C40_SuccessfulTasksEndComplete ==
    (/\ orch.pc = "done"
     /\ orch.ended # "iteration_cap"
     /\ AllTasksSucceeded)
        => /\ orch.ended = "complete"
           /\ flags.extraction_complete

----------------------------------------------------------------------------
(* PosteriorVerifier: verify_claim.  Texts are sequences of characters;    *)
(* scores are fixed-point numbers: lexical and nli scores in hundredths,   *)
(* composite scores in ten-thousandths.                                    *)

POSTERIOR_VERIFIER_ALPHA == 60
POSTERIOR_VERIFIER_BETA == 40
POSTERIOR_VERIFIER_THRESHOLD == 6000
POSTERIOR_VERIFICATION_TOP_K == 10
(* 1 / POSTERIOR_VERIFIER_EPSILON *)
EPSILON_INVERSE == 1000000
(* pre_filter_threshold 0.05, in hundredths *)
PRE_FILTER_THRESHOLD == 5
(* the exact-match boost 0.25 and its cap 1.0 *)
EXACT_MATCH_BOOST == 2500
SCORE_CAP == 10000
(* the score above which a verified result ends the loop (0.95) *)
EARLY_STOP_SCORE == 9500
(* best_result's initial score -1.0 *)
NO_SCORE == -10000

(* characters _clean_text removes (neither word characters nor CJK) *)
Punctuation == {".", " "}

(* _clean_text *)
clean_text(text) == SelectSeq(text, LAMBDA ch : ch \notin Punctuation)

(* str.strip() *)
Strip(text) ==
    LET kept == {i \in 1..Len(text) : text[i] # " "} IN
    IF kept = {} THEN <<>>
    ELSE SubSeq(text, CHOOSE i \in kept : \A j \in kept : i <= j,
                      CHOOSE i \in kept : \A j \in kept : i >= j)

(* a in b, for two strings *)
IsSubstring(a, b) ==
    \E i \in 0..(Len(b) - Len(a)) : SubSeq(b, i + 1, i + Len(a)) = a

(* _calculate_lexical_overlap, in hundredths rounded down *)
calculate_lexical_overlap(str1, str2) ==
    LET s1 == clean_text(str1)
        s2 == clean_text(str2)
        count_covered == Cardinality({i \in 1..Len(s1) : InList(s1[i], s2)})
        overlap_score == (count_covered * 100 * EPSILON_INVERSE)
                            \div (Len(s1) * EPSILON_INVERSE + 1)
    IN  IF s1 = <<>> THEN 0
        ELSE IF overlap_score > 100 THEN 100 ELSE overlap_score

(* _compute_css_score, in ten-thousandths *)
compute_css_score(lexical_score, nli_score) ==
    POSTERIOR_VERIFIER_ALPHA * lexical_score
      + POSTERIOR_VERIFIER_BETA * nli_score

(* the documents of one retrieval *)
Document(name, parent_text, document) ==
    [source_document_name |-> name, parent_id |-> "parent of " \o name,
     id |-> "chunk of " \o name, parent_text |-> parent_text,
     document |-> document]

(* doc.get("parent_text") or doc.get("document") or "" *)
doc_text(doc) ==
    IF doc.parent_text # <<>> THEN doc.parent_text ELSE doc.document

RetrievedDocs ==
    {Document("Doc A", <<>>, <<"x", "y", ".">>),
     Document("Doc B", <<"z", " ", "x">>, <<"y">>),
     Document("Doc C", <<>>, <<>>)}

DocLists ==
    {<<>>} \cup {<<d>> : d \in RetrievedDocs}
           \cup {<<d1, d2>> : d1 \in RetrievedDocs, d2 \in RetrievedDocs}

ClaimTexts == {<<>>, <<" ">>, <<"x", "y">>, <<"w", " ", "x">>, <<"w">>}

(* focus_entity; the empty string stands for None as well *)
FocusEntities == {<<>>, <<"x">>, <<"w">>}

(* what llm_service.chat makes of one prompt: an exception ("raised"), a   *)
(* text that is no JSON object and in which the two regular expressions    *)
(* find nothing ("unparseable"), or a JSON object with a score in [0, 1]   *)
(* and an evidence sentence, which is a sentence of a document, a padded   *)
(* one, or a sentence of the oracle's own                                  *)
OracleReplies ==
    {[kind |-> k, score |-> 0, evidence_sentence |-> <<>>] :
       k \in {"raised", "unparseable"}}
    \cup {[kind |-> "json", score |-> sc, evidence_sentence |-> ev] :
            sc \in {0, 50, 100},
            ev \in {<<>>, <<"x", "y">>, <<" ", "x", " ">>, <<"y", "x">>}}

(* the entailment score used when the oracle's reply is of no use *)
SCORE_ON_FAILURE == 0

(* _verify_and_extract_evidence_llm on one reply: the except branch of     *)
(* lines 226-228, the regex fallback of lines 211-219, lines 221-224       *)
verify_and_extract_evidence_llm(reply) ==
    IF reply.kind = "raised"
    THEN [score |-> SCORE_ON_FAILURE, evidence_sentence |-> <<>>]
    ELSE IF reply.kind = "unparseable"
    THEN [score |-> SCORE_ON_FAILURE, evidence_sentence |-> <<>>]
    ELSE [score |-> reply.score,
          evidence_sentence |-> Strip(reply.evidence_sentence)]

(* evidence_ref None *)
NoEvidenceRef == [source_id |-> "", father_text |-> <<>>, key_evidence |-> <<>>]

(* the early returns of lines 51-55 *)
failed_fast ==
    [verified |-> FALSE, score |-> 0, boosted |-> FALSE, fallback |-> FALSE,
     nli |-> 0, evidence_ref |-> NoEvidenceRef, sent |-> <<>>,
     skipped |-> <<>>]

(* best_result of lines 61-67; nli is score_breakdown's entry; sent lists  *)
(* the candidates given to the oracle and skipped those the loop passed    *)
(* over, in order                                                          *)
initial_best ==
    [verified |-> FALSE, score |-> NO_SCORE, boosted |-> FALSE,
     fallback |-> FALSE, nli |-> 0, evidence_ref |-> NoEvidenceRef,
     sent |-> <<>>, skipped |-> <<>>]

(* a pre-filter that looks at the lexical score only *)
pre_filtered_by_score(has_exact_entity, doc_lex_score) ==
    doc_lex_score < PRE_FILTER_THRESHOLD

(* line 90 *)
pre_filtered(has_exact_entity, doc_lex_score) ==
    ~has_exact_entity /\ doc_lex_score < PRE_FILTER_THRESHOLD

(* a comparison that lets a later document replace an equal score *)
better_or_equal(css_score, best_score) == css_score >= best_score

(* line 130 *)
better(css_score, best_score) == css_score > best_score

(* the composite score of lines 98-111 for one document and one reply *)
css_of(claim_text, text, has_exact_entity, llm_result) ==
    LET final_lex_score ==
            IF llm_result.evidence_sentence # <<>>
            THEN calculate_lexical_overlap(claim_text,
                                           llm_result.evidence_sentence)
            ELSE calculate_lexical_overlap(claim_text, text)
        css_score == compute_css_score(final_lex_score, llm_result.score)
    IN  IF has_exact_entity
        THEN IF css_score + EXACT_MATCH_BOOST > SCORE_CAP THEN SCORE_CAP
             ELSE css_score + EXACT_MATCH_BOOST
        ELSE css_score

(* line 83 *)
has_exact_entity_in(focus_entity, text) ==
    focus_entity # <<>> /\ IsSubstring(focus_entity, text)

(* the loop of lines 74-142 from candidate i on; oracle[i] is the reply to *)
(* the prompt about candidate i                                            *)
RECURSIVE verify_candidates(_, _, _, _, _, _)
verify_candidates(best, docs, i, claim_text, focus_entity, oracle) ==
    IF i > Len(docs) THEN best
    ELSE LET text == doc_text(docs[i])
             doc_lex_score == calculate_lexical_overlap(claim_text, text)
             has_exact_entity == has_exact_entity_in(focus_entity, text)
         IN
         IF text = <<>>
         THEN verify_candidates([best EXCEPT !.skipped = Append(@, i)], docs,
                                i + 1, claim_text, focus_entity, oracle)
         ELSE IF pre_filtered(has_exact_entity, doc_lex_score)
         THEN verify_candidates([best EXCEPT !.skipped = Append(@, i)], docs,
                                i + 1, claim_text, focus_entity, oracle)
         ELSE LET llm_result == verify_and_extract_evidence_llm(oracle[i])
                  css_score == css_of(claim_text, text, has_exact_entity,
                                      llm_result)
                  now_best ==
                    IF better(css_score, best.score)
                    THEN [verified |-> css_score >= POSTERIOR_VERIFIER_THRESHOLD,
                          score |-> css_score,
                          boosted |-> has_exact_entity,
                          fallback |-> FALSE,
                          nli |-> llm_result.score,
                          evidence_ref |->
                            [source_id |-> docs[i].source_document_name,
                             father_chunk_id |-> docs[i].parent_id,
                             child_chunk_id |-> docs[i].id,
                             father_text |-> text,
                             key_evidence |-> llm_result.evidence_sentence],
                          sent |-> Append(best.sent, i),
                          skipped |-> best.skipped]
                    ELSE [best EXCEPT !.sent = Append(@, i)]
              IN  IF /\ better(css_score, best.score)
                     /\ now_best.verified
                     /\ now_best.score > EARLY_STOP_SCORE
                  THEN now_best
                  ELSE verify_candidates(now_best, docs, i + 1, claim_text,
                                         focus_entity, oracle)

(* lines 148-168: no candidate replaced the initial result *)
fallback_verify(best, candidate_docs, claim_text, oracle) ==
    LET fallback_text == doc_text(candidate_docs[1])
        llm_res == verify_and_extract_evidence_llm(oracle[1])
        f_css == css_of(claim_text, fallback_text, FALSE, llm_res)
    IN  IF best.score = NO_SCORE /\ fallback_text # <<>>
        THEN [verified |-> f_css >= POSTERIOR_VERIFIER_THRESHOLD,
              score |-> f_css,
              boosted |-> FALSE,
              fallback |-> TRUE,
              nli |-> llm_res.score,
              evidence_ref |->
                [source_id |-> candidate_docs[1].source_document_name,
                 father_text |-> fallback_text,
                 key_evidence |-> llm_res.evidence_sentence],
              sent |-> Append(best.sent, 1),
              skipped |-> best.skipped]
        ELSE best

(* PosteriorVerifier.verify_claim *)
verify_claim(claim_text, retrieved_docs, focus_entity, oracle) ==
    IF Strip(claim_text) = <<>> THEN failed_fast
    ELSE IF retrieved_docs = <<>> THEN failed_fast
    ELSE LET candidate_docs ==
               SubSeq(retrieved_docs, 1,
                      IF Len(retrieved_docs) < POSTERIOR_VERIFICATION_TOP_K
                      THEN Len(retrieved_docs)
                      ELSE POSTERIOR_VERIFICATION_TOP_K)
         IN  fallback_verify(
               verify_candidates(initial_best, candidate_docs, 1, claim_text,
                                 focus_entity, oracle),
               candidate_docs, claim_text, oracle)

(* nothing was stored in evidence_details *)
NoStored == [source_id |-> "", key_evidence |-> <<>>, score |-> NO_SCORE]

(* one call of verify_claim by _match_evidence's verify_single_item *)
VerifyClaim ==
    /\ ~verification.called
    /\ \E claim_text \in ClaimTexts, retrieved_docs \in DocLists,
          focus_entity \in FocusEntities :
         \E oracle \in [1..Len(retrieved_docs) -> OracleReplies] :
            verification' =
              [called |-> TRUE, injected |-> FALSE,
               claim_text |-> claim_text,
               retrieved_docs |-> retrieved_docs,
               focus_entity |-> focus_entity,
               oracle |-> oracle,
               result |-> verify_claim(claim_text, retrieved_docs,
                                       focus_entity, oracle),
               stored |-> NoStored]
    /\ UNCHANGED <<graph_vars, flags, queue_vars, call, verdicts, orch,
                   popped, matching, steps>>

(* _match_evidence lines 229-245: the evidence of a verified item is       *)
(* written to evidence_details[field][item]                                *)
InjectEvidence ==
    /\ verification.called
    /\ ~verification.injected
    /\ verification' =
         [verification EXCEPT
            !.injected = TRUE,
            !.stored =
               IF /\ verification.result.verified
                  /\ verification.result.evidence_ref # NoEvidenceRef
               THEN [source_id |-> verification.result.evidence_ref.source_id,
                     key_evidence |->
                        verification.result.evidence_ref.key_evidence,
                     score |-> verification.result.score]
               ELSE NoStored]
    /\ UNCHANGED <<graph_vars, flags, queue_vars, call, verdicts, orch,
                   popped, matching, steps>>

NextVerify ==
    \/ VerifyClaim
    \/ InjectEvidence

SpecVerify == Init /\ [][NextVerify]_vars

(* the text of the retrieved document named name *)
TextsNamed(name) ==
    {doc_text(verification.retrieved_docs[i]) :
       i \in {j \in 1..Len(verification.retrieved_docs) :
                verification.retrieved_docs[j].source_document_name = name}}

(* C18: every key_evidence stored in evidence_details is a verbatim        *)
(* substring of the text of the retrieved document its source_id names,    *)
(* whatever the oracle replied.                                            *)
C18_StoredEvidenceIsVerbatim ==
    (verification.called /\ verification.injected
       /\ verification.stored # NoStored)
      => \E text \in TextsNamed(verification.stored.source_id) :
            IsSubstring(verification.stored.key_evidence, text)

(* the composite score of candidate i of the last call: alpha * lexical + *)
(* beta * nli, plus the boost, capped, when the focus entity is in its text *)
Composite(i) ==
    LET text == doc_text(verification.retrieved_docs[i]) IN
    css_of(verification.claim_text, text,
           has_exact_entity_in(verification.focus_entity, text),
           verify_and_extract_evidence_llm(verification.oracle[i]))

(* the candidates the loop of the last call came to: all of them, or      *)
(* those up to the one at which it stopped early                           *)
LoopReached ==
    LET r == verification.result IN
    ListSet(r.skipped)
      \cup (IF r.fallback THEN {} ELSE ListSet(r.sent))

(* the candidates the loop of the last call sent to the oracle *)
LoopSent ==
    IF verification.result.fallback THEN {}
    ELSE ListSet(verification.result.sent)

(* C25: the loop of verify_claim passes over a candidate document without  *)
(* calling the oracle exactly when the lexical coverage of the claim in    *)
(* the document is below 0.05 and the focus entity is not in its text (or  *)
(* none was given); a document that holds the focus entity is sent to the  *)
(* oracle however low its coverage.                                        *)
C25_SkippedIffLowCoverageAndNoEntity ==
    verification.called =>
      \A i \in LoopReached :
        LET text == doc_text(verification.retrieved_docs[i])
            low == calculate_lexical_overlap(verification.claim_text, text)
                     < PRE_FILTER_THRESHOLD
            has == /\ verification.focus_entity # <<>>
                   /\ IsSubstring(verification.focus_entity, text)
        IN  /\ InList(i, verification.result.skipped) <=> (low /\ ~has)
            /\ i \in LoopSent <=> ~(low /\ ~has)

(* a document that shares no character with the claim but holds the focus *)
(* entity was sent to the oracle, and another one was skipped              *)
C25_Witness ==
    /\ verification.called
    /\ verification.claim_text = <<"w">>
    /\ verification.focus_entity = <<"x">>
    /\ Len(verification.retrieved_docs) = 2
    /\ verification.retrieved_docs[1].source_document_name = "Doc C"
    /\ verification.retrieved_docs[2].source_document_name = "Doc A"
    /\ verification.result.skipped = <<1>>
    /\ verification.result.sent = <<2>>

(* C26: given a non-empty claim and a non-empty document list, when no     *)
(* candidate reached the oracle in the loop, verify_claim calls the oracle *)
(* on the first candidate and returns an evidence_ref taken from it.       *)
C26_FallbackOnFirstDocument ==
    (/\ verification.called
     /\ Strip(verification.claim_text) # <<>>
     /\ verification.retrieved_docs # <<>>
     /\ LoopSent = {})
      => /\ verification.result.fallback
         /\ verification.result.sent = <<1>>
         /\ verification.result.evidence_ref # NoEvidenceRef
         /\ verification.result.evidence_ref.source_id =
               verification.retrieved_docs[1].source_document_name

(* the identifiers an evidence reference is to carry *)
EvidenceRefKeys == {"source_id", "father_chunk_id", "key_evidence", "score"}

(* C27: every evidence_ref verify_claim returns that is not None carries   *)
(* the source identifier, the originating chunk identifier, the excerpt    *)
(* and the numeric score, on the normal and on the fallback path.          *)
C27_EvidenceRefIsComplete ==
    (verification.called /\ verification.result.evidence_ref # NoEvidenceRef)
      => EvidenceRefKeys \subseteq DOMAIN verification.result.evidence_ref

(* C28: when the oracle call for a document fails (the client raises, or   *)
(* the reply holds neither a JSON object nor a score), the function        *)
(* _verify_and_extract_evidence_llm returns the neutral entailment score   *)
(* 0.5 and the verification of that document goes on with it.              *)
C28_OracleFailureGivesNeutralScore ==
    verification.called =>
      \A i \in ListSet(verification.result.sent) :
        verification.oracle[i].kind \in {"raised", "unparseable"}
          => /\ verify_and_extract_evidence_llm(verification.oracle[i]).score
                  = 50
             /\ (verification.result.evidence_ref # NoEvidenceRef
                  /\ Len(verification.result.sent) = 1)
                   => verification.result.nli = 50

(* C19: verify_claim returns verified exactly when the score it returns is *)
(* at least the threshold; when it sent candidates to the oracle, that     *)
(* score is the highest composite score among them and the evidence names  *)
(* the earliest candidate that has it.                                     *)
C19_VerifiedIffBestScoreReachesThreshold ==
    verification.called =>
      LET r == verification.result
          sent == ListSet(r.sent)
      IN  /\ r.verified <=> (r.score >= POSTERIOR_VERIFIER_THRESHOLD)
          /\ sent # {} =>
               /\ \A i \in sent : Composite(i) <= r.score
               /\ \E i \in sent :
                    /\ Composite(i) = r.score
                    /\ \A j \in sent : j < i => Composite(j) < r.score
                    /\ r.evidence_ref.source_id =
                         verification.retrieved_docs[i].source_document_name

(* two different documents were sent to the oracle and tie at a score that *)
(* reaches the threshold with the boost; the first one is the evidence     *)
C19_Witness ==
    /\ verification.called
    /\ verification.result.sent = <<1, 2>>
    /\ verification.retrieved_docs[1].source_document_name = "Doc A"
    /\ verification.retrieved_docs[2].source_document_name = "Doc B"
    /\ Composite(1) = Composite(2)
    /\ verification.result.boosted
    /\ verification.result.verified
    /\ verification.result.score = Composite(1)
    /\ verification.result.evidence_ref.source_id = "Doc A"

(* C37: the score verify_claim returns is never negative, whatever the     *)
(* claim and the documents, documents with an empty text included.         *)
C37_ScoreIsNeverNegative ==
    verification.called => verification.result.score >= 0

----------------------------------------------------------------------------
(* NodeExtractorAgent._match_evidence on one list field: the items are     *)
(* submitted to a thread pool and their results are aggregated in the      *)
(* order in which the futures complete                                     *)

(* extracted_data.get(field) *)
FieldItemLists ==
    {<<>>, <<"">>, <<"A">>, <<"A", "B">>, <<"B", "", "A">>, <<"A", "B", "C">>}

(* what verify_single_item gives for one item: the result of verify_claim, *)
(* or an exception                                                         *)
ItemVerified ==
    [raised |-> FALSE, verified |-> TRUE, score |-> 8000,
     reason |-> "CSS >= Threshold",
     evidence_ref |-> [source_id |-> "Doc A", father_text |-> <<"x", "y", ".">>,
                       key_evidence |-> <<"x", "y">>]]
ItemRejected ==
    [raised |-> FALSE, verified |-> FALSE, score |-> 3000,
     reason |-> "Best Score < Threshold",
     evidence_ref |-> [source_id |-> "Doc A", father_text |-> <<"x", "y", ".">>,
                       key_evidence |-> <<>>]]
ItemRaised ==
    [raised |-> TRUE, verified |-> FALSE, score |-> 0,
     reason |-> "exception message", evidence_ref |-> NoEvidenceRef]
ItemResults == {ItemVerified, ItemRejected, ItemRaised}

(* verified_items, filtered_field_items and evidence_details_map[field]    *)
(* before the first future completes                                       *)
NoAggregate ==
    [verified_items |-> <<>>, filtered_field_items |-> <<>>,
     evidence |-> <<>>]

(* a loop body that forgets the rejected items *)
record_result_verified_only(acc, item, result) ==
    IF ~result.raised /\ result.verified
    THEN [acc EXCEPT
            !.verified_items = Append(@, item),
            !.evidence = DictSet(@, item,
                           [source_id |-> result.evidence_ref.source_id,
                            key_evidence |-> result.evidence_ref.key_evidence,
                            score |-> result.score])]
    ELSE acc

(* lines 225-258: the body of the as_completed loop for one future *)
record_result(acc, item, result) ==
    IF result.raised THEN acc
    ELSE IF result.verified
    THEN [acc EXCEPT
            !.verified_items = Append(@, item),
            !.evidence =
               IF result.evidence_ref # NoEvidenceRef
               THEN DictSet(@, item,
                      [source_id |-> result.evidence_ref.source_id,
                       key_evidence |-> result.evidence_ref.key_evidence,
                       score |-> result.score])
               ELSE @]
    ELSE [acc EXCEPT
            !.filtered_field_items =
               Append(@, [value |-> item, reason |-> result.reason,
                          score |-> result.score])]

(* lines 190-223: the field is read, cleaned and its items are submitted;  *)
(* a missing or empty list is left alone, a list of blanks becomes []      *)
SubmitItems ==
    /\ matching.pc = "idle"
    /\ \E items \in FieldItemLists :
         LET items_cleaned == ItemsCleaned(items) IN
         \E results \in [ListSet(items_cleaned) -> ItemResults] :
           matching' =
             IF items = <<>> \/ items_cleaned = <<>>
             THEN [pc |-> "done", items |-> items,
                   items_cleaned |-> items_cleaned, results |-> results,
                   outstanding |-> {}, completed |-> <<>>,
                   acc |-> NoAggregate, field_items |-> <<>>,
                   filtered_items |-> <<>>]
             ELSE [pc |-> "running", items |-> items,
                   items_cleaned |-> items_cleaned, results |-> results,
                   outstanding |-> 1..Len(items_cleaned), completed |-> <<>>,
                   acc |-> NoAggregate, field_items |-> items,
                   filtered_items |-> <<>>]
    /\ UNCHANGED <<graph_vars, flags, queue_vars, call, verdicts, orch,
                   popped, verification, steps>>

(* one more future is yielded by as_completed: any that is outstanding *)
CompleteNext ==
    /\ matching.pc = "running"
    /\ \E k \in matching.outstanding :
         LET item == matching.items_cleaned[k] IN
         matching' =
           [matching EXCEPT
              !.outstanding = @ \ {k},
              !.completed = Append(@, item),
              !.acc = record_result(@, item, matching.results[item])]
    /\ UNCHANGED <<graph_vars, flags, queue_vars, call, verdicts, orch,
                   popped, verification, steps>>

(* lines 260-263: the field and filtered_items_map[field] are written *)
FinishField ==
    /\ matching.pc = "running"
    /\ matching.outstanding = {}
    /\ matching' =
         [matching EXCEPT
            !.pc = "done",
            !.field_items = matching.acc.verified_items,
            !.filtered_items = matching.acc.filtered_field_items]
    /\ UNCHANGED <<graph_vars, flags, queue_vars, call, verdicts, orch,
                   popped, verification, steps>>

NextMatch ==
    \/ SubmitItems
    \/ CompleteNext
    \/ FinishField

SpecMatch == Init /\ [][NextMatch]_vars

(* the entries of filtered_items[field] about item *)
FilteredAbout(item) ==
    {k \in 1..Len(matching.filtered_items) :
       matching.filtered_items[k].value = item}

(* C22: when the field is done, every non-blank item whose verification    *)
(* returned a result is in exactly one place: in the field with an entry   *)
(* in evidence_details[field] when verified, otherwise out of the field    *)
(* and once in filtered_items[field] with its reason and score.            *)
C22_ItemKeptOrFiltered ==
    matching.pc = "done" =>
      \A item \in ListSet(matching.items_cleaned) :
        LET result == matching.results[item] IN
        ~result.raised =>
          IF result.verified
          THEN /\ InList(item, matching.field_items)
               /\ item \in DOMAIN matching.acc.evidence
               /\ FilteredAbout(item) = {}
          ELSE /\ ~InList(item, matching.field_items)
               /\ item \notin DOMAIN matching.acc.evidence
               /\ Cardinality(FilteredAbout(item)) = 1
               /\ \A k \in FilteredAbout(item) :
                    /\ matching.filtered_items[k].reason = result.reason
                    /\ matching.filtered_items[k].score = result.score

(* a field of three items is done: A was verified, B was rejected *)
C22_Witness ==
    /\ matching.pc = "done"
    /\ matching.items = <<"A", "B", "C">>
    /\ matching.results["A"] = ItemVerified
    /\ matching.results["B"] = ItemRejected
    /\ InList("A", matching.field_items)
    /\ FilteredAbout("B") # {}

(* C29: an item whose verification raised is recorded in                   *)
(* filtered_items[field] with the exception message as its reason, and is  *)
(* not kept in the field; the other items are aggregated all the same.     *)
C29_RaisedItemIsFiltered ==
    matching.pc = "done" =>
      \A item \in ListSet(matching.items_cleaned) :
        matching.results[item].raised =>
          /\ ~InList(item, matching.field_items)
          /\ \E k \in FilteredAbout(item) :
               matching.filtered_items[k].reason = matching.results[item].reason

(* the lists the loop builds when the futures complete in the order of     *)
(* submission                                                              *)
RECURSIVE InSubmissionOrder(_, _)
InSubmissionOrder(acc, items) ==
    IF items = <<>> THEN acc
    ELSE InSubmissionOrder(
           record_result(acc, Head(items), matching.results[Head(items)]),
           Tail(items))

(* C30: for fixed results per item, the verified list, the filtered list   *)
(* and the evidence map of a field do not depend on the order in which the *)
(* futures complete: they are what the order of submission gives.          *)
C30_AggregationIsOrderIndependent ==
    (matching.pc = "done" /\ matching.items_cleaned # <<>>) =>
      LET expected == InSubmissionOrder(NoAggregate, matching.items_cleaned)
      IN  /\ matching.field_items = expected.verified_items
          /\ matching.filtered_items = expected.filtered_field_items
          /\ matching.acc.evidence = expected.evidence

====
